---- MODULE Spec2Model ----
(***************************************************************************)
(* The asynchronous audio transcription service of src/src/index.js:       *)
(* POST /transcribe, GET /transcribe-status/:task_id, the expiry sweep and *)
(* executeTranscriptionTask, on Node's single-threaded event loop.         *)
(*                                                                         *)
(* A handler or a pipeline runs without interleaving from one await to the *)
(* next; `cur` names the task whose synchronous code is running (0 when    *)
(* the event loop is free).  Each updateTask call is a step of its own, so *)
(* that every write to a record is a transition of the model.              *)
(*                                                                         *)
(* JavaScript values: numbers are integers here; NaN, undefined and null   *)
(* are distinct sentinels outside the range of the numbers used.  Strings  *)
(* that the code formats (messages, errors, ids) are tagged tuples; the    *)
(* recognised texts are sequences of one-character strings.                *)
(***************************************************************************)
EXTENDS Integers, Sequences, FiniteSets, TLC

VARIABLES
  cfConfigured,        \* CF_ACCOUNT_ID && CF_WORKERS_AI_TOKEN (process environment)
  now,                 \* Date.now(), in milliseconds
  transcriptionTasks,  \* the Map: task id -> reference to a task object
  tasks,               \* the task objects, in creation order (the heap)
  proc,                \* per task object: the locals of its pipeline run
  cur,                 \* task whose synchronous segment is running, 0 if none
  res,                 \* response written by the handler in flight
  dirs,                \* the directories under os.tmpdir() that exist
  call                 \* a function applied on its own: its arguments and its result

vars == <<cfConfigured, now, transcriptionTasks, tasks, proc, cur, res, dirs, call>>

(***************************** bounds **************************************)
MaxTasks == 2
MaxTicks == 1
MaxDuration == 6200
MaxOutcomes == 3
MaxPieces == 2

(************************** program constants ******************************)
MAX_WHISPER_SIZE == 25 * 1024 * 1024
ONE_HOUR == 60 * 60 * 1000
SWEEP_INTERVAL == 10 * 60 * 1000
TARGET_CHUNK_COUNT == 10
MIN_CHUNK_DURATION == 120
MAX_CHUNK_DURATION == 900
THRESHOLD_DURATION == 6000
LONG_AUDIO_CHUNK == 600
MAX_PARALLEL == 10
MIN_DURATION_SECONDS == 300
maxRetries == 3

(************************** JavaScript values ******************************)
NaN == 0 - 2^30
Undefined == NaN - 1
Null == NaN - 2

Truthy(x) == x \notin {NaN, Undefined, Null, 0}

\* a < b on numbers; false when either side is NaN
Lt(a, b) == a # NaN /\ b # NaN /\ a < b

MathMin(a, b) == IF a = NaN \/ b = NaN THEN NaN ELSE IF a < b THEN a ELSE b

MathMax(a, b) == IF a = NaN \/ b = NaN THEN NaN ELSE IF a > b THEN a ELSE b

\* Math.ceil(a / b) for b # 0
CeilDiv(a, b) ==
  IF a = NaN \/ b = NaN THEN NaN
  ELSE IF b > 0
       THEN IF a >= 0 THEN (a + b - 1) \div b ELSE 0 - ((0 - a) \div b)
       ELSE IF a >= 0 THEN 0 - (a \div (0 - b)) ELSE ((0 - a) + (0 - b) - 1) \div (0 - b)

\* Math.floor((a / b) * k) for a >= 0, b > 0
FloorScaled(a, b, k) == (a * k) \div b

\* Array.prototype.slice(start, end) on a sequence (0-based bounds)
Slice(a, start, end) ==
  LET n == Len(a)
      s == IF start < 0 THEN (IF n + start > 0 THEN n + start ELSE 0)
                        ELSE (IF start < n THEN start ELSE n)
      e == IF end < 0 THEN (IF n + end > 0 THEN n + end ELSE 0)
                      ELSE (IF end < n THEN end ELSE n)
  IN  IF e <= s THEN <<>> ELSE [k \in 1..(e - s) |-> a[s + k]]

\* Object.assign(target, updates)
ObjectAssign(target, updates) ==
  [k \in DOMAIN target \cup DOMAIN updates |->
     IF k \in DOMAIN updates THEN updates[k] ELSE target[k]]

\* Map.prototype.set / Map.prototype.delete
MapSet(m, k, v) == [x \in DOMAIN m \cup {k} |-> IF x = k THEN v ELSE m[x]]

MapDelete(m, ks) == [x \in DOMAIN m \ ks |-> m[x]]

(***************************** inputs **************************************)
\* req.body of POST /transcribe; "" is a missing audio_url
AudioUrls == {"", "u"}
ExpectedDurations == {Undefined, 0, 60, 300}
ChunkDurationArgs == {Undefined, 0 - 5, 0, 200, 1000}
MaxParallelArgs == {Undefined, 0 - 1, 2, 11}
Requests ==
  [audio_url : AudioUrls, expected_duration : ExpectedDurations,
   chunk_duration : ChunkDurationArgs, max_parallel : MaxParallelArgs]

\* what parseFloat reads from ffprobe's output
ProbeOutputs == {NaN, 200, 300}

\* a size ffmpeg's output can have: under and over the upload ceiling
ChunkSizes == {1024, MAX_WHISPER_SIZE + 1}

\* the texts Whisper can return for the chunk with index k
SP == " "
Letter(k) == <<"a", "b", "c", "d">>[k + 1]
WhisperTexts(k) == {<<>>, <<SP, Letter(k)>>}

\* error.name / error.message of a failed download attempt
FetchErrors == {"AbortError", "ECONNRESET", "HTTP 404"}

\* the names fs.mkdtemp can give to a directory
DirNames == 1..MaxTasks

(***************************** planner *************************************)
\* mutant: the computed duration is not raised to the minimum
calculateOptimalChunkDurationNoFloor(totalDuration) ==
  IF totalDuration # NaN /\ totalDuration >= THRESHOLD_DURATION
  THEN LONG_AUDIO_CHUNK
  ELSE MathMin(MAX_CHUNK_DURATION, CeilDiv(totalDuration, TARGET_CHUNK_COUNT))

\* mutant: long audio is cut at the maximum chunk duration
calculateOptimalChunkDurationLongMax(totalDuration) ==
  IF totalDuration # NaN /\ totalDuration >= THRESHOLD_DURATION
  THEN MAX_CHUNK_DURATION
  ELSE MathMin(MAX_CHUNK_DURATION,
               MathMax(MIN_CHUNK_DURATION, CeilDiv(totalDuration, TARGET_CHUNK_COUNT)))

calculateOptimalChunkDuration(totalDuration) ==
  IF totalDuration # NaN /\ totalDuration >= THRESHOLD_DURATION
  THEN LONG_AUDIO_CHUNK
  ELSE MathMin(MAX_CHUNK_DURATION,
               MathMax(MIN_CHUNK_DURATION, CeilDiv(totalDuration, TARGET_CHUNK_COUNT)))

(************************** responses, records *****************************)
NoRes == [kind |-> "none"]

NoCall == [fn |-> "none"]

Msg(tag, a, b, c) == <<tag, a, b, c>>

\* the record POST /transcribe stores
NewTask(req, chunk_duration, max_parallel) ==
  [status |-> "pending", progress |-> 0, message |-> Msg("created", 0, 0, 0),
   audio_url |-> req.audio_url, language |-> "auto",
   chunk_duration |-> chunk_duration, max_parallel |-> max_parallel,
   created_at |-> now, updated_at |-> now]

\* the locals of one executeTranscriptionTask run; error is what the catch
\* block has caught ("" when nothing was raised)
NewProc(taskId) ==
  [pc |-> "respond", taskId |-> taskId, attempt |-> 0, tempDir |-> Null, error |-> "",
   totalDuration |-> Undefined, chunkDuration |-> Undefined, chunkCount |-> Undefined,
   i |-> 0, chunks |-> <<>>, batch |-> <<>>, settled |-> <<>>,
   transcripts |-> <<>>, completedChunks |-> 0]

Idle == cur = 0 /\ res = NoRes

NonTerminal == {"pending", "downloading", "splitting", "transcribing"}
Terminal == {"completed", "failed"}

(*************************** the registry **********************************)
\* mutant: the updates are assigned to every record of the registry
updateTaskAll(t, updates) ==
  /\ tasks' = [k \in DOMAIN tasks |->
                 ObjectAssign(ObjectAssign(tasks[k], updates), [updated_at |-> now])]
  /\ transcriptionTasks' = MapSet(transcriptionTasks, proc[t].taskId, t)

\* mutant: an update stamps created_at as well
updateTaskRestamps(t, updates) ==
  /\ tasks' = [tasks EXCEPT ![t] =
                 ObjectAssign(ObjectAssign(@, updates),
                              [created_at |-> now, updated_at |-> now])]
  /\ transcriptionTasks' = MapSet(transcriptionTasks, proc[t].taskId, t)

\* updateTask of the pipeline of task object t
updateTask(t, updates) ==
  /\ tasks' = [tasks EXCEPT ![t] =
                 ObjectAssign(ObjectAssign(@, updates), [updated_at |-> now])]
  /\ transcriptionTasks' = MapSet(transcriptionTasks, proc[t].taskId, t)

\* the entries the sweep deletes
Expired ==
  {id \in DOMAIN transcriptionTasks :
     now - tasks[transcriptionTasks[id]].created_at > ONE_HOUR}

\* the setInterval callback
Sweep ==
  /\ Idle
  /\ Expired # {}
  /\ transcriptionTasks' = MapDelete(transcriptionTasks, Expired)
  /\ UNCHANGED <<call, dirs, cfConfigured, now, tasks, proc, cur, res>>

\* time passes
Tick ==
  /\ Idle
  /\ now < MaxTicks * (ONE_HOUR + SWEEP_INTERVAL)
  /\ now' = now + ONE_HOUR + SWEEP_INTERVAL
  /\ UNCHANGED <<call, dirs, cfConfigured, transcriptionTasks, tasks, proc, cur, res>>

(************************* POST /transcribe ********************************)
\* mutant: the supplied chunk duration is stored as it came
safeChunkDurationUnclamped(req) ==
  IF Truthy(req.chunk_duration) THEN req.chunk_duration ELSE Null

safeChunkDuration(req) ==
  IF Truthy(req.chunk_duration)
  THEN MathMin(req.chunk_duration, MAX_CHUNK_DURATION) ELSE Null

safeMaxParallel(req) ==
  MathMin(IF Truthy(req.max_parallel) THEN req.max_parallel ELSE MAX_PARALLEL,
          MAX_PARALLEL)

\* the early returns of the handler, in order; NoRes when none is taken
Rejection(req) ==
  IF req.audio_url = ""
  THEN [kind |-> "post", status |-> 400, error |-> "audio_url is required"]
  ELSE IF ~cfConfigured
  THEN [kind |-> "post", status |-> 500, error |-> "not configured"]
  ELSE IF Truthy(req.expected_duration) /\ Lt(req.expected_duration, MIN_DURATION_SECONDS)
  THEN [kind |-> "post", status |-> 400, error |-> "DURATION_TOO_SHORT"]
  ELSE NoRes

PostReject(req) ==
  /\ Idle
  /\ Rejection(req) # NoRes
  /\ res' = Rejection(req)
  /\ UNCHANGED <<call, dirs, cfConfigured, now, transcriptionTasks, tasks, proc, cur>>

\* transcriptionTasks.set(taskId, {...})
PostAccept(req, suffix) ==
  /\ Idle
  /\ Rejection(req) = NoRes
  /\ LET t == Len(tasks) + 1
         taskId == <<now, suffix>>
     IN  /\ tasks' = Append(tasks, NewTask(req, safeChunkDuration(req), safeMaxParallel(req)))
         /\ transcriptionTasks' = MapSet(transcriptionTasks, taskId, t)
         /\ proc' = Append(proc, NewProc(taskId))
         /\ cur' = t
  /\ UNCHANGED <<call, dirs, cfConfigured, now, res>>

\* mutant: the handler goes on to the pipeline without answering
PostRespondLate(t) ==
  /\ cur = t /\ proc[t].pc = "respond"
  /\ proc' = [proc EXCEPT ![t].pc = "execute"]
  /\ UNCHANGED <<call, dirs, cfConfigured, now, transcriptionTasks, tasks, cur, res>>

\* res.json({ success: true, task_id })
PostRespond(t) ==
  /\ cur = t /\ proc[t].pc = "respond"
  /\ res' = [kind |-> "post", status |-> 200, task_id |-> proc[t].taskId]
  /\ proc' = [proc EXCEPT ![t].pc = "execute"]
  /\ UNCHANGED <<call, dirs, cfConfigured, now, transcriptionTasks, tasks, cur>>

(******************* GET /transcribe-status/:task_id ***********************)
\* mutant: the error field is attached to every record that is not completed
StatusResponseErrorUnlessCompleted(task_id) ==
  IF task_id \notin DOMAIN transcriptionTasks
  THEN [kind |-> "status", task_id |-> task_id, status |-> 404,
        body |-> [error |-> "Task not found or expired"]]
  ELSE LET task == tasks[transcriptionTasks[task_id]]
           response == [task_id |-> task_id, status |-> task.status,
                        progress |-> task.progress, message |-> task.message,
                        created_at |-> task.created_at, updated_at |-> task.updated_at]
       IN  [kind |-> "status", task_id |-> task_id, status |-> 200,
            body |-> IF task.status = "completed"
                     THEN ObjectAssign(response, [transcript |-> task.transcript,
                                                  word_count |-> task.word_count,
                                                  stats |-> task.stats])
                     ELSE ObjectAssign(response,
                            [error |-> IF "error" \in DOMAIN task THEN task.error
                                       ELSE "undefined"])]

StatusResponse(task_id) ==
  IF task_id \notin DOMAIN transcriptionTasks
  THEN [kind |-> "status", task_id |-> task_id, status |-> 404,
        body |-> [error |-> "Task not found or expired"]]
  ELSE LET task == tasks[transcriptionTasks[task_id]]
           response == [task_id |-> task_id, status |-> task.status,
                        progress |-> task.progress, message |-> task.message,
                        created_at |-> task.created_at, updated_at |-> task.updated_at]
           withResult ==
             IF task.status = "completed"
             THEN ObjectAssign(response, [transcript |-> task.transcript,
                                          word_count |-> task.word_count,
                                          stats |-> task.stats])
             ELSE response
           withError ==
             IF task.status = "failed"
             THEN ObjectAssign(withResult, [error |-> task.error])
             ELSE withResult
       IN  [kind |-> "status", task_id |-> task_id, status |-> 200, body |-> withError]

\* the ids a client can ask for: every id issued so far, and one never issued
QueryIds == {proc[t].taskId : t \in 1..Len(proc)} \cup {<<0, 0>>}

GetStatus(task_id) ==
  /\ Idle
  /\ res' = StatusResponse(task_id)
  /\ UNCHANGED <<call, dirs, cfConfigured, now, transcriptionTasks, tasks, proc, cur>>

\* the response leaves the process
Deliver ==
  /\ cur = 0 /\ res # NoRes
  /\ res' = NoRes
  /\ UNCHANGED <<call, dirs, cfConfigured, now, transcriptionTasks, tasks, proc, cur>>

(********************** executeTranscriptionTask ***************************)
\* a change of the locals of task t's run
Locals(t, changes) == proc' = [proc EXCEPT ![t] = ObjectAssign(@, changes)]

\* mutant: the catch block does not take the error for an Error
FailUnknown(t, errorMsg) ==
  updateTask(t, [status |-> "failed", progress |-> 0,
                 message |-> Msg("failed", 0, 0, 0), error |-> "Unknown error"])

\* mutant: the failed update is applied in part, the progress left as it was
FailKeepsProgress(t, errorMsg) ==
  updateTask(t, [status |-> "failed",
                 message |-> Msg("failed", 0, 0, 0), error |-> errorMsg])

\* the catch block: updateTask({ status: 'failed', progress: 0, ... }),
\* errorMsg the message of the Error caught
Fail(t, errorMsg) ==
  updateTask(t, [status |-> "failed", progress |-> 0,
                 message |-> Msg("failed", 0, 0, 0), error |-> errorMsg])

\* mutant: the run reaches its first await without the downloading update
ExecuteStartNoUpdate(t) ==
  /\ cur = t /\ proc[t].pc = "execute"
  /\ Locals(t, [pc |-> "fetch", attempt |-> 1])
  /\ cur' = 0
  /\ UNCHANGED <<call, dirs, cfConfigured, now, res, tasks, transcriptionTasks>>

\* the synchronous start of the run, up to the first await inside downloadWithRetry
ExecuteStart(t) ==
  /\ cur = t /\ proc[t].pc = "execute"
  /\ updateTask(t, [status |-> "downloading", progress |-> 5,
                    message |-> Msg("downloading", 0, 0, 0)])
  /\ Locals(t, [pc |-> "fetch", attempt |-> 1])
  /\ cur' = 0
  /\ UNCHANGED <<call, dirs, cfConfigured, now, res>>

\* isTimeout || isNetworkError
Retryable(e) == e \in {"AbortError", "ECONNRESET"}

\* downloadWithRetry: an attempt delivers the whole body
FetchOk(t) ==
  /\ Idle /\ proc[t].pc = "fetch"
  /\ Locals(t, [pc |-> "mkdtemp"])
  /\ UNCHANGED <<call, dirs, cfConfigured, now, transcriptionTasks, tasks, cur, res>>

\* downloadWithRetry: an attempt fails and another one follows the delay
FetchRetry(t, e) ==
  /\ Idle /\ proc[t].pc = "fetch"
  /\ proc[t].attempt < maxRetries /\ Retryable(e)
  /\ Locals(t, [attempt |-> proc[t].attempt + 1])
  /\ UNCHANGED <<call, dirs, cfConfigured, now, transcriptionTasks, tasks, cur, res>>

\* downloadWithRetry throws; tempDir is still null, so nothing is cleaned
FetchThrow(t, e) ==
  /\ Idle /\ proc[t].pc = "fetch"
  /\ ~(proc[t].attempt < maxRetries /\ Retryable(e))
  /\ Fail(t, e)
  /\ Locals(t, [pc |-> "done", error |-> e])
  /\ UNCHANGED <<call, dirs, cfConfigured, now, cur, res>>

\* fs.mkdtemp creates a directory under a name that does not exist yet
MkdtempOk(t, dir) ==
  /\ Idle /\ proc[t].pc = "mkdtemp"
  /\ dir \notin dirs
  /\ dirs' = dirs \cup {dir}
  /\ Locals(t, [pc |-> "writeFile", tempDir |-> dir])
  /\ UNCHANGED <<call, cfConfigured, now, transcriptionTasks, tasks, cur, res>>

MkdtempThrow(t) ==
  /\ Idle /\ proc[t].pc = "mkdtemp"
  /\ Fail(t, "mkdtemp failed")
  /\ Locals(t, [pc |-> "done", error |-> "mkdtemp failed"])
  /\ UNCHANGED <<call, dirs, cfConfigured, now, cur, res>>

\* fs.writeFile, then updateTask({ progress: 15 }) and the call of ffprobe
WriteFileOk(t) ==
  /\ Idle /\ proc[t].pc = "writeFile"
  /\ updateTask(t, [progress |-> 15, message |-> Msg("downloaded", 0, 0, 0)])
  /\ Locals(t, [pc |-> "probe"])
  /\ UNCHANGED <<call, dirs, cfConfigured, now, cur, res>>

WriteFileThrow(t) ==
  /\ Idle /\ proc[t].pc = "writeFile"
  /\ Fail(t, "writeFile failed")
  /\ Locals(t, [pc |-> "cleanup", error |-> "writeFile failed"])
  /\ UNCHANGED <<call, dirs, cfConfigured, now, cur, res>>

\* ffprobe fails
ProbeThrow(t) ==
  /\ Idle /\ proc[t].pc = "probe"
  /\ Fail(t, "ffprobe failed")
  /\ Locals(t, [pc |-> "cleanup", error |-> "ffprobe failed"])
  /\ UNCHANGED <<call, dirs, cfConfigured, now, cur, res>>

\* totalDuration < MIN_DURATION_SECONDS: throw
ProbeTooShort(t, totalDuration) ==
  /\ Idle /\ proc[t].pc = "probe"
  /\ Lt(totalDuration, MIN_DURATION_SECONDS)
  /\ Fail(t, "duration too short")
  /\ Locals(t, [pc |-> "cleanup", totalDuration |-> totalDuration,
                error |-> "duration too short"])
  /\ UNCHANGED <<call, dirs, cfConfigured, now, cur, res>>

\* task.chunk_duration || calculateOptimalChunkDuration(totalDuration)
ChunkDurationFor(task, totalDuration) ==
  IF Truthy(task.chunk_duration) THEN task.chunk_duration
  ELSE calculateOptimalChunkDuration(totalDuration)

\* the chunk strategy, updateTask({ status: 'splitting' }) and the first ffmpeg call
ProbeOk(t, totalDuration) ==
  /\ Idle /\ proc[t].pc = "probe"
  /\ ~Lt(totalDuration, MIN_DURATION_SECONDS)
  /\ LET chunkDuration == ChunkDurationFor(tasks[t], totalDuration)
         chunkCount == CeilDiv(totalDuration, chunkDuration)
         enters == Lt(0, chunkCount)
     IN  /\ updateTask(t, [status |-> "splitting", progress |-> 20,
                           message |-> Msg("splitting", chunkCount, 0, 0)])
         /\ Locals(t, [pc |-> IF enters THEN "cut" ELSE "transcribe",
                       totalDuration |-> totalDuration, chunkDuration |-> chunkDuration,
                       chunkCount |-> chunkCount, i |-> 0, chunks |-> <<>>])
         /\ cur' = IF enters THEN 0 ELSE t
  /\ UNCHANGED <<call, dirs, cfConfigured, now, res>>

\* the chunk record pushed for index i
Chunk(p, size) ==
  [index |-> p.i, start_time |-> p.i * p.chunkDuration,
   duration |-> MathMin(p.chunkDuration, p.totalDuration - p.i * p.chunkDuration),
   size |-> size]

\* mutant: the split progress starts from 10
SplitProgressLowBase(i, chunkCount) == 10 + FloorScaled(i, chunkCount, 10)

\* 20 + Math.floor((i / chunkCount) * 10)
SplitProgress(i, chunkCount) == 20 + FloorScaled(i, chunkCount, 10)

\* mutant: the transcription starts behind the first cut
AfterCutStartsEarly(t, chunks) ==
  /\ updateTask(t, [progress |-> SplitProgress(proc[t].i, proc[t].chunkCount),
                    message |-> Msg("cutting", proc[t].i + 1, proc[t].chunkCount, 0)])
  /\ Locals(t, [pc |-> "transcribe", i |-> proc[t].i + 1, chunks |-> chunks])
  /\ cur' = t
  /\ UNCHANGED <<call, dirs, cfConfigured, now, res>>

\* the end of one iteration of the split loop
AfterCut(t, chunks) ==
  LET p == proc[t]
      splitProgress == SplitProgress(p.i, p.chunkCount)
      again == p.i + 1 < p.chunkCount
  IN  /\ updateTask(t, [progress |-> splitProgress,
                        message |-> Msg("cutting", p.i + 1, p.chunkCount, 0)])
      /\ Locals(t, [pc |-> IF again THEN "cut" ELSE "transcribe",
                    i |-> p.i + 1, chunks |-> chunks])
      /\ cur' = IF again THEN 0 ELSE t
      /\ UNCHANGED <<call, dirs, cfConfigured, now, res>>

\* ffmpeg or readFile fails: the chunk is skipped
CutThrow(t) ==
  /\ Idle /\ proc[t].pc = "cut"
  /\ AfterCut(t, proc[t].chunks)

\* mutant: a chunk over the upload ceiling is kept
CutOkKeepsOversize(t, size) ==
  /\ Idle /\ proc[t].pc = "cut"
  /\ AfterCut(t, Append(proc[t].chunks, Chunk(proc[t], size)))

\* ffmpeg wrote a file of `size` bytes
CutOk(t, size) ==
  /\ Idle /\ proc[t].pc = "cut"
  /\ AfterCut(t, IF size <= MAX_WHISPER_SIZE
                 THEN Append(proc[t].chunks, Chunk(proc[t], size))
                 ELSE proc[t].chunks)

\* mutant: a split that left no chunk fails the task
StartTranscribeNeedsChunks(t) ==
  /\ cur = t /\ proc[t].pc = "transcribe"
  /\ IF Len(proc[t].chunks) = 0
     THEN /\ Fail(t, "no chunks")
          /\ Locals(t, [pc |-> "cleanup"])
          /\ cur' = 0
     ELSE /\ updateTask(t, [status |-> "transcribing", progress |-> 30,
                            message |-> Msg("transcribing", 0, 0, 0)])
          /\ Locals(t, [pc |-> "batch", i |-> 0, transcripts |-> <<>>,
                        completedChunks |-> 0])
          /\ cur' = cur
  /\ UNCHANGED <<call, dirs, cfConfigured, now, res>>

\* updateTask({ status: 'transcribing' }) and the first test of the batch loop
StartTranscribe(t) ==
  /\ cur = t /\ proc[t].pc = "transcribe"
  /\ updateTask(t, [status |-> "transcribing", progress |-> 30,
                    message |-> Msg("transcribing", 0, 0, 0)])
  /\ Locals(t, [pc |-> IF 0 < Len(proc[t].chunks) THEN "batch" ELSE "assemble",
                i |-> 0, transcripts |-> <<>>, completedChunks |-> 0])
  /\ UNCHANGED <<call, dirs, cfConfigured, now, cur, res>>

\* chunks.slice(i, i + task.max_parallel) and the callWhisperAPI calls of the batch
BatchStart(t) ==
  /\ cur = t /\ proc[t].pc = "batch"
  /\ LET batch == Slice(proc[t].chunks, proc[t].i, proc[t].i + tasks[t].max_parallel)
     IN  /\ Locals(t, [pc |-> IF batch = <<>> THEN "batchEnd" ELSE "whisper",
                       batch |-> batch, settled |-> <<>>])
         /\ cur' = IF batch = <<>> THEN t ELSE 0
  /\ UNCHANGED <<call, dirs, cfConfigured, now, transcriptionTasks, tasks, res>>

\* one call of the batch settles; Promise.all resolves with the last one
Settle(t, j, result) ==
  LET settled == proc[t].settled @@ (j :> result)
      all == DOMAIN settled = 1..Len(proc[t].batch)
  IN  /\ Idle /\ proc[t].pc = "whisper"
      /\ j \in (1..Len(proc[t].batch)) \ DOMAIN proc[t].settled
      /\ Locals(t, [pc |-> IF all THEN "batchEnd" ELSE "whisper", settled |-> settled])
      /\ cur' = IF all THEN t ELSE 0
      /\ UNCHANGED <<call, dirs, cfConfigured, now, transcriptionTasks, tasks, res>>

\* callWhisperAPI returns text: { index, text, success: true }
WhisperOk(t, j, text) ==
  Settle(t, j, [index |-> proc[t].batch[j].index, text |-> text, success |-> TRUE])

\* mutant: a failed call rejects the whole batch and the task fails
WhisperThrowAborts(t, j) ==
  /\ Idle /\ proc[t].pc = "whisper"
  /\ j \in (1..Len(proc[t].batch)) \ DOMAIN proc[t].settled
  /\ Fail(t, "Whisper API error")
  /\ Locals(t, [pc |-> "cleanup"])
  /\ UNCHANGED <<call, dirs, cfConfigured, now, cur, res>>

\* mutant: the failure is recorded under the index of the batch's first chunk
WhisperThrowFirstIndex(t, j) ==
  Settle(t, j, [index |-> proc[t].batch[1].index, text |-> <<>>, success |-> FALSE])

\* callWhisperAPI throws: { index, text: '', success: false }
WhisperThrow(t, j) ==
  Settle(t, j, [index |-> proc[t].batch[j].index, text |-> <<>>, success |-> FALSE])

\* i += task.max_parallel.  Once i <= -chunks.length every later slice is empty
\* and the loop test stays true: i is kept at that floor.
NextIndex(i, maxParallel, length) ==
  IF i + maxParallel < 0 - length THEN 0 - length ELSE i + maxParallel

SuccessCount(transcripts) ==
  Cardinality({k \in 1..Len(transcripts) : transcripts[k].success})

\* mutant: the progress counts the chunks still to do
TranscribeProgressRemaining(completedChunks, length) ==
  30 + FloorScaled(length - completedChunks, length, 60)

\* mutant: the progress is scaled to the whole rest of the range
TranscribeProgressTo100(completedChunks, length) ==
  30 + FloorScaled(completedChunks, length, 70)

\* 30 + Math.floor((completedChunks / chunks.length) * 60)
TranscribeProgress(completedChunks, length) ==
  30 + FloorScaled(completedChunks, length, 60)

\* mutant: completedChunks counts the successful chunks of the batch only
BatchEndCountsSuccesses(t) ==
  /\ cur = t /\ proc[t].pc = "batchEnd"
  /\ LET p == proc[t]
         batchResults == [j \in 1..Len(p.batch) |-> p.settled[j]]
         transcripts == p.transcripts \o batchResults
         completedChunks == p.completedChunks + SuccessCount(batchResults)
         transcribeProgress == TranscribeProgress(completedChunks, Len(p.chunks))
         i == NextIndex(p.i, tasks[t].max_parallel, Len(p.chunks))
     IN  /\ updateTask(t, [progress |-> transcribeProgress,
                           message |-> Msg("transcribed", completedChunks, Len(p.chunks),
                                           SuccessCount(transcripts))])
         /\ Locals(t, [pc |-> IF i < Len(p.chunks) THEN "batch" ELSE "assemble",
                       i |-> i, transcripts |-> transcripts,
                       completedChunks |-> completedChunks])
  /\ UNCHANGED <<call, dirs, cfConfigured, now, cur, res>>

\* transcripts.push(...batchResults), the progress update and the next loop test
BatchEnd(t) ==
  /\ cur = t /\ proc[t].pc = "batchEnd"
  /\ LET p == proc[t]
         batchResults == [j \in 1..Len(p.batch) |-> p.settled[j]]
         transcripts == p.transcripts \o batchResults
         completedChunks == p.completedChunks + Len(p.batch)
         transcribeProgress == TranscribeProgress(completedChunks, Len(p.chunks))
         i == NextIndex(p.i, tasks[t].max_parallel, Len(p.chunks))
     IN  /\ updateTask(t, [progress |-> transcribeProgress,
                           message |-> Msg("transcribed", completedChunks, Len(p.chunks),
                                           SuccessCount(transcripts))])
         /\ Locals(t, [pc |-> IF i < Len(p.chunks) THEN "batch" ELSE "assemble",
                       i |-> i, transcripts |-> transcripts,
                       completedChunks |-> completedChunks])
  /\ UNCHANGED <<call, dirs, cfConfigured, now, cur, res>>

(***************************** assembler ***********************************)
NL == "\n"
Whitespace == {SP, NL}

RECURSIVE InsertByIndex(_, _)
\* x placed behind every element whose index is not greater (a stable sort)
InsertByIndex(sorted, x) ==
  IF sorted = <<>> \/ sorted[Len(sorted)].index <= x.index
  THEN Append(sorted, x)
  ELSE Append(InsertByIndex(SubSeq(sorted, 1, Len(sorted) - 1), x), sorted[Len(sorted)])

\* mutant: the outcomes stay in the order of their arrival
SortByIndexArrival(s) == s

RECURSIVE SortByIndex(_)
\* transcripts.sort((a, b) => a.index - b.index)
SortByIndex(s) ==
  IF s = <<>> THEN <<>>
  ELSE InsertByIndex(SortByIndex(SubSeq(s, 1, Len(s) - 1)), s[Len(s)])

\* mutant: every outcome is kept
FilterTextAll(s) == s

\* .filter(t => t.text)
FilterText(s) == SelectSeq(s, LAMBDA x : x.text # <<>>)

RECURSIVE Trim(_)
\* String.prototype.trim
Trim(text) ==
  IF text = <<>> THEN <<>>
  ELSE IF Head(text) \in Whitespace THEN Trim(Tail(text))
  ELSE IF text[Len(text)] \in Whitespace THEN Trim(SubSeq(text, 1, Len(text) - 1))
  ELSE text

RECURSIVE Join(_, _)
\* Array.prototype.join
Join(parts, sep) ==
  IF parts = <<>> THEN <<>>
  ELSE IF Len(parts) = 1 THEN parts[1]
  ELSE parts[1] \o sep \o Join(Tail(parts), sep)

\* the sort, filter, map and join of step 5
FullTranscript(transcripts) ==
  LET kept == FilterText(SortByIndex(transcripts))
  IN  Join([k \in 1..Len(kept) |-> Trim(kept[k].text)], <<NL, NL>>)

\* mutant: the run ends with the completed update, the directory left behind
CompleteNoCleanup(t) ==
  /\ cur = t /\ proc[t].pc = "assemble"
  /\ updateTask(t, [status |-> "completed", progress |-> 100,
                    message |-> Msg("completed", 0, 0, 0),
                    transcript |-> FullTranscript(proc[t].transcripts),
                    word_count |-> Len(FullTranscript(proc[t].transcripts)),
                    stats |-> [duration_seconds |-> proc[t].totalDuration,
                               chunk_duration_seconds |-> proc[t].chunkDuration,
                               chunk_count |-> Len(proc[t].chunks),
                               successful_chunks |-> SuccessCount(proc[t].transcripts)]])
  /\ Locals(t, [pc |-> "done"])
  /\ cur' = 0
  /\ UNCHANGED <<call, dirs, cfConfigured, now, res>>

\* steps 5 and 6: the result is assembled and the task marked completed; the
\* finally block calls fs.rm in the same segment (pc "cleanup": fs.rm is pending)
\* (stats.timing and stats.file_size_mb are wall-clock and byte measurements, left out)
Complete(t) ==
  /\ cur = t /\ proc[t].pc = "assemble"
  /\ LET p == proc[t]
         fullTranscript == FullTranscript(p.transcripts)
     IN  updateTask(t, [status |-> "completed", progress |-> 100,
                        message |-> Msg("completed", 0, 0, 0),
                        transcript |-> fullTranscript,
                        word_count |-> Len(fullTranscript),
                        stats |-> [duration_seconds |-> p.totalDuration,
                                   chunk_duration_seconds |-> p.chunkDuration,
                                   chunk_count |-> Len(p.chunks),
                                   successful_chunks |-> SuccessCount(p.transcripts)]])
  /\ Locals(t, [pc |-> "cleanup"])
  /\ cur' = 0
  /\ UNCHANGED <<call, dirs, cfConfigured, now, res>>

\* mutant: a failing fs.rm reaches the catch block
CleanupFailing(t, removed) ==
  /\ Idle /\ proc[t].pc = "cleanup"
  /\ Fail(t, "cleanup failed")
  /\ Locals(t, [pc |-> "done"])
  /\ UNCHANGED <<call, dirs, cfConfigured, now, cur, res>>

\* finally: fs.rm(tempDir) removes the directory or fails, and the run ends
Cleanup(t, removed) ==
  /\ Idle /\ proc[t].pc = "cleanup"
  /\ Truthy(proc[t].tempDir)
  /\ dirs' = IF removed THEN dirs \ {proc[t].tempDir} ELSE dirs
  /\ Locals(t, [pc |-> "done"])
  /\ UNCHANGED <<call, cfConfigured, now, transcriptionTasks, tasks, cur, res>>

(*************************** specification *********************************)
\* the process has started and no request has arrived
Boot ==
  /\ cfConfigured \in BOOLEAN
  /\ now = 0
  /\ transcriptionTasks = <<>>
  /\ tasks = <<>>
  /\ proc = <<>>
  /\ cur = 0
  /\ res = NoRes
  /\ dirs = {}

Init == Boot /\ call = NoCall

\* what the collaborators can answer in a specification
AnyAnswer ==
  [fetchErrors |-> FetchErrors, probeOutputs |-> ProbeOutputs,
   chunkSizes |-> ChunkSizes, silence |-> TRUE, rmOutcomes |-> BOOLEAN]

\* the steps of task t's pipeline run, the collaborators answering within env
Step(t, env) ==
  \/ PostRespond(t)
  \/ ExecuteStart(t)
  \/ FetchOk(t)
  \/ \E e \in env.fetchErrors : FetchRetry(t, e)
  \/ \E e \in env.fetchErrors : FetchThrow(t, e)
  \/ \E dir \in DirNames : MkdtempOk(t, dir)
  \/ MkdtempThrow(t)
  \/ WriteFileOk(t)
  \/ WriteFileThrow(t)
  \/ ProbeThrow(t)
  \/ \E d \in env.probeOutputs : ProbeTooShort(t, d)
  \/ \E d \in env.probeOutputs : ProbeOk(t, d)
  \/ CutThrow(t)
  \/ \E size \in env.chunkSizes : CutOk(t, size)
  \/ StartTranscribe(t)
  \/ BatchStart(t)
  \/ \E j \in 1..Len(proc[t].batch) :
       \E text \in WhisperTexts(proc[t].batch[j].index) :
         (env.silence \/ text # <<>>) /\ WhisperOk(t, j, text)
  \/ \E j \in 1..Len(proc[t].batch) : WhisperThrow(t, j)
  \/ BatchEnd(t)
  \/ Complete(t)
  \/ \E removed \in env.rmOutcomes : Cleanup(t, removed)

\* the events that belong to no task
Background ==
  \/ \E req \in Requests : PostReject(req)
  \/ \E id \in QueryIds : GetStatus(id)
  \/ Deliver
  \/ Sweep
  \/ Tick

\* One submission is accepted: a task in isolation, every input and every answer.
Next ==
  \/ Background
  \/ \E req \in Requests : Len(tasks) = 0 /\ PostAccept(req, 1)
  \/ \E t \in 1..Len(proc) : Step(t, AnyAnswer)

Spec == Init /\ [][Next]_vars

\* The one task's run alone, under the scheduling of the event loop: a response
\* written is sent, and a continuation that is ready again and again is run
\* (every collaborator call returns or fails).
RunNext ==
  \/ Deliver
  \/ \E req \in Requests : Len(tasks) = 0 /\ PostAccept(req, 1)
  \/ \E t \in 1..Len(proc) : Step(t, AnyAnswer)

FairSpec ==
  /\ Init /\ [][RunNext]_vars
  /\ WF_vars(Deliver)
  /\ \A t \in 1..MaxTasks : SF_vars(t <= Len(proc) /\ Step(t, AnyAnswer))

\* Up to MaxTasks tasks run concurrently, their ids distinct, on a narrower
\* choice of inputs and answers.
ConcRequests ==
  [audio_url : {"u"}, expected_duration : {Undefined},
   chunk_duration : {1000}, max_parallel : {Undefined}]

ConcAnswer ==
  [fetchErrors |-> {"AbortError"}, probeOutputs |-> {200, 300},
   chunkSizes |-> {1024}, silence |-> FALSE, rmOutcomes |-> BOOLEAN]

ConcNext ==
  \/ Deliver
  \/ \E req \in ConcRequests :
       Len(tasks) < MaxTasks /\ PostAccept(req, Len(tasks) + 1)
  \/ \E t \in 1..Len(proc) : Step(t, ConcAnswer)

ConcSpec == Init /\ [][ConcNext]_vars

\* what Math.random().toString(36).slice(2, 8) can give
RandomSuffixes == {1, 2}

\* Submissions arriving within one millisecond, the random part of the id as
\* it falls.
IdNext ==
  \/ Deliver
  \/ \E req \in ConcRequests, suffix \in RandomSuffixes :
       Len(tasks) < MaxTasks /\ PostAccept(req, suffix)
  \/ \E t \in 1..Len(proc) : Step(t, ConcAnswer)

IdSpec == Init /\ [][IdNext]_vars

(************************ the planner on its own ***************************)
\* the total durations, in whole seconds
Durations == 1..MaxDuration

PlanInit ==
  /\ Boot
  /\ call \in [fn : {"plan"}, totalDuration : Durations, done : {FALSE},
               chunkDuration : {Null}, chunkCount : {Null}]

\* the chunk strategy for a total duration when no chunk duration was supplied
PlanChunks ==
  /\ call.fn = "plan" /\ ~call.done
  /\ LET chunkDuration == calculateOptimalChunkDuration(call.totalDuration)
         chunkCount == CeilDiv(call.totalDuration, chunkDuration)
     IN  call' = [call EXCEPT !.done = TRUE, !.chunkDuration = chunkDuration,
                              !.chunkCount = chunkCount]
  /\ UNCHANGED <<cfConfigured, now, transcriptionTasks, tasks, proc, cur, res, dirs>>

PlanSpec == PlanInit /\ [][PlanChunks]_vars

(*********************** the assembler on its own **************************)
\* what the call for the chunk with index k can have left in transcripts: the
\* failure, or a text (empty, white space only, or spoken)
Outcomes(k) ==
  {[index |-> k, text |-> <<>>, success |-> FALSE]} \cup
  {[index |-> k, text |-> text, success |-> TRUE] : text \in WhisperTexts(k) \cup {<<SP>>}}

\* the lists of outcomes, in any order of arrival, no index twice
OutcomeLists ==
  UNION {{s \in [1..n -> UNION {Outcomes(k) : k \in 0..(MaxOutcomes - 1)}] :
            \A a, b \in 1..n : a # b => s[a].index # s[b].index} :
         n \in 0..MaxOutcomes}

AssembleInit ==
  /\ Boot
  /\ call \in [fn : {"assemble"}, transcripts : OutcomeLists, done : {FALSE},
               transcript : {<<>>}, word_count : {0}, successful_chunks : {0}]

\* step 5 applied to a list of outcomes
Assemble ==
  /\ call.fn = "assemble" /\ ~call.done
  /\ LET fullTranscript == FullTranscript(call.transcripts)
     IN  call' = [call EXCEPT !.done = TRUE, !.transcript = fullTranscript,
                              !.word_count = Len(fullTranscript),
                              !.successful_chunks = SuccessCount(call.transcripts)]
  /\ UNCHANGED <<cfConfigured, now, transcriptionTasks, tasks, proc, cur, res, dirs>>

AssembleSpec == AssembleInit /\ [][Assemble]_vars

(********************* downloadWithRetry on its own ************************)
\* An error: what the code reads of it (name, message; the message as its
\* words, includes(x) being "x is one of them") and what the attempt failed of
\* (kind: "timeout", "network" or "http").
includes(message, word) == \E k \in 1..Len(message) : message[k] = word

\* controller.abort() makes fetch reject with this
AbortError ==
  [kind |-> "timeout", name |-> "AbortError",
   message |-> <<"This", "operation", "was", "aborted">>]

\* the network failures of fetch() or of reader.read()
NetworkErrors ==
  {[kind |-> "network", name |-> "Error", message |-> <<"read", "ECONNRESET">>],
   [kind |-> "network", name |-> "Error", message |-> <<"connect", "ETIMEDOUT">>],
   [kind |-> "network", name |-> "TypeError", message |-> <<"fetch", "failed">>]}

\* response.status and the words of response.statusText of a response that is not ok
NotOkResponses ==
  {<<"404:", <<"Not", "Found">>>>, <<"504:", <<"Gateway", "Timeout">>>>,
   <<"504:", <<"Gateway", "timeout">>>>}

\* new Error(`HTTP ${response.status}: ${response.statusText}`)
HttpError(r) ==
  [kind |-> "http", name |-> "Error", message |-> <<"HTTP", r[1]>> \o r[2]]

isTimeout(error) == error.name = "AbortError" \/ includes(error.message, "timeout")

isNetworkError(error) ==
  includes(error.message, "ECONNRESET") \/ includes(error.message, "ETIMEDOUT")

\* the pieces reader.read() can yield, and the bodies a response can stream
Pieces == {<<1>>, <<2, 3>>}
Bodies == UNION {[1..n -> Pieces] : n \in 0..MaxPieces}

RECURSIVE allChunks(_)
\* the Uint8Array filled piece by piece, each at the position behind the last
allChunks(chunks) ==
  IF chunks = <<>> THEN <<>>
  ELSE allChunks(SubSeq(chunks, 1, Len(chunks) - 1)) \o chunks[Len(chunks)]

\* the call of downloadWithRetry: the options, the locals, the state of the
\* current attempt's timer and stream, and what the attempts so far ended with
DownloadInit ==
  /\ Boot
  /\ call \in [fn : {"download"}, maxRetries : 1..maxRetries, attempt : {1},
               phase : {"fetch"}, timer : {TRUE}, stream : {<<>>}, served : {<<>>},
               chunks : {<<>>}, receivedLength : {0}, errors : {<<>>},
               lastError : {Null}, error : {Null}, result : {<<>>}]

Downloading == call.fn = "download"

\* the catch block of an attempt: the delay before the next one, or throw error
Catch(error, timer) ==
  LET retry == call.attempt < call.maxRetries
                 /\ (isTimeout(error) \/ isNetworkError(error))
  IN  call' = [call EXCEPT !.lastError = error, !.errors = Append(@, error),
                           !.timer = timer,
                           !.phase = IF retry THEN "delay" ELSE "thrown",
                           !.error = IF retry THEN @ ELSE error]

\* the timer set at the start of the attempt fires: controller.abort()
Timeout ==
  /\ Downloading /\ call.phase = "fetch" /\ call.timer
  /\ Catch(AbortError, FALSE)
  /\ UNCHANGED <<cfConfigured, now, transcriptionTasks, tasks, proc, cur, res, dirs>>

\* fetch() rejects; clearTimeout is not reached
FetchRejects(error) ==
  /\ Downloading /\ call.phase = "fetch"
  /\ Catch(error, call.timer)
  /\ UNCHANGED <<cfConfigured, now, transcriptionTasks, tasks, proc, cur, res, dirs>>

\* a response that is not ok: clearTimeout(timeoutId), then the throw
RespondNotOk(r) ==
  /\ Downloading /\ call.phase = "fetch"
  /\ Catch(HttpError(r), FALSE)
  /\ UNCHANGED <<cfConfigured, now, transcriptionTasks, tasks, proc, cur, res, dirs>>

\* an ok response: clearTimeout(timeoutId), then the read loop over its body
RespondOk(body) ==
  /\ Downloading /\ call.phase = "fetch"
  /\ call' = [call EXCEPT !.timer = FALSE, !.phase = "read", !.stream = body]
  /\ UNCHANGED <<cfConfigured, now, transcriptionTasks, tasks, proc, cur, res, dirs>>

\* reader.read() yields the next piece
Read ==
  /\ Downloading /\ call.phase = "read" /\ call.stream # <<>>
  /\ call' = [call EXCEPT !.stream = Tail(@), !.served = Append(@, Head(call.stream)),
                           !.chunks = Append(@, Head(call.stream)),
                           !.receivedLength = @ + Len(Head(call.stream))]
  /\ UNCHANGED <<cfConfigured, now, transcriptionTasks, tasks, proc, cur, res, dirs>>

\* reader.read() reports done: the pieces are merged and returned
ReadDone ==
  /\ Downloading /\ call.phase = "read" /\ call.stream = <<>>
  /\ call' = [call EXCEPT !.phase = "returned",
                           !.result = SubSeq(allChunks(call.chunks), 1, call.receivedLength)]
  /\ UNCHANGED <<cfConfigured, now, transcriptionTasks, tasks, proc, cur, res, dirs>>

\* reader.read() rejects
ReadRejects(error) ==
  /\ Downloading /\ call.phase = "read"
  /\ Catch(error, call.timer)
  /\ UNCHANGED <<cfConfigured, now, transcriptionTasks, tasks, proc, cur, res, dirs>>

\* mutant: the pieces of the failed attempt are kept for the next one
NextAttemptKeepsPieces ==
  /\ Downloading /\ call.phase = "delay"
  /\ call' = [call EXCEPT !.attempt = @ + 1, !.phase = "fetch", !.timer = TRUE,
                           !.stream = <<>>, !.served = <<>>]
  /\ UNCHANGED <<cfConfigured, now, transcriptionTasks, tasks, proc, cur, res, dirs>>

\* the retry delay has passed: the next iteration of the loop, a new timer,
\* a new response, chunks and receivedLength declared anew
NextAttempt ==
  /\ Downloading /\ call.phase = "delay"
  /\ call' = [call EXCEPT !.attempt = @ + 1, !.phase = "fetch", !.timer = TRUE,
                           !.stream = <<>>, !.served = <<>>,
                           !.chunks = <<>>, !.receivedLength = 0]
  /\ UNCHANGED <<cfConfigured, now, transcriptionTasks, tasks, proc, cur, res, dirs>>

downloadWithRetry ==
  \/ Timeout
  \/ \E error \in NetworkErrors : FetchRejects(error)
  \/ \E r \in NotOkResponses : RespondNotOk(r)
  \/ \E body \in Bodies : RespondOk(body)
  \/ Read
  \/ ReadDone
  \/ \E error \in NetworkErrors : ReadRejects(error)
  \/ NextAttempt

DownloadSpec == DownloadInit /\ [][downloadWithRetry]_vars

(******************************* claims ************************************)
Created == 1..Len(tasks)

StatusSteps ==
  {<<"pending", "downloading">>, <<"downloading", "splitting">>,
   <<"splitting", "transcribing">>, <<"transcribing", "completed">>}
    \cup (NonTerminal \X {"failed"})

\* C1: a task's status changes only along pending -> downloading -> splitting ->
\* transcribing -> completed, or from a non-terminal status to failed; a record
\* starts pending, and a completed or failed record keeps its status.
C1_StatusMachine ==
  [][/\ \A t \in Created :
          \/ tasks'[t].status = tasks[t].status
          \/ <<tasks[t].status, tasks'[t].status>> \in StatusSteps
     /\ \A t \in 1..Len(tasks') : t \notin Created => tasks'[t].status = "pending"]_vars

\* C1 witness: a task went all the way to completed and its run has ended
C1_Witness ==
  \E t \in Created : tasks[t].status = "completed" /\ proc[t].pc = "done"

\* C2 (the claim as stated): every accepted submission's task eventually has the
\* status completed or failed.
C2_EventuallyTerminal ==
  \A t \in 1..MaxTasks :
    (t <= Len(tasks)) ~> (t <= Len(tasks) /\ tasks[t].status \in Terminal)

FailedCalls(transcripts) ==
  Cardinality({k \in 1..Len(transcripts) : ~transcripts[k].success})

\* the letters of a text, its white space and line breaks left out
Letters(text) == SelectSeq(text, LAMBDA c : c \notin Whitespace)

RECURSIVE SpokenUpTo(_, _)
\* the letters of the chunks with index < n whose call returned a text, by index
SpokenUpTo(transcripts, n) ==
  IF n <= 0 THEN <<>>
  ELSE SpokenUpTo(transcripts, n - 1) \o
         (IF \E k \in 1..Len(transcripts) :
               /\ transcripts[k].index = n - 1
               /\ transcripts[k].success
               /\ transcripts[k].text # <<>>
          THEN <<Letter(n - 1)>> ELSE <<>>)

\* C3: once a task is transcribing it does not fail; when it completes with k of
\* its n surviving chunks failed, successful_chunks is n - k and the transcript
\* holds the texts of the successful chunks only, in ascending index order.
C3_PartialFailure ==
  [][\A t \in Created :
       tasks[t].status = "transcribing" =>
         /\ tasks'[t].status \in {"transcribing", "completed"}
         /\ tasks'[t].status = "completed" =>
              /\ tasks'[t].stats.chunk_count = Len(proc[t].chunks)
              /\ tasks'[t].stats.successful_chunks =
                   Len(proc[t].chunks) - FailedCalls(proc[t].transcripts)
              /\ Letters(tasks'[t].transcript) =
                   SpokenUpTo(proc[t].transcripts, proc[t].chunkCount)]_vars

\* C3 witness: a task completed with three chunks, one of them failed, the two
\* others spoken
C3_Witness ==
  \E t \in Created :
    /\ tasks[t].status = "completed"
    /\ tasks[t].stats.chunk_count = 3
    /\ tasks[t].stats.successful_chunks = 2
    /\ Len(Letters(tasks[t].transcript)) = 2

\* a submission that supplies an expected duration below the minimum
SuppliesShortDuration(req) ==
  req.expected_duration # Undefined /\ Lt(req.expected_duration, MIN_DURATION_SECONDS)

\* C4 (the claim as stated): a submission that supplies an expected duration
\* below 300 seconds is never accepted: no record is stored and no pipeline starts.
C4_ShortDurationRejected ==
  [][\A req \in Requests :
       SuppliesShortDuration(req) => ~PostAccept(req, 1)]_vars

IsAccepted(r) == r.kind = "post" /\ r.status = 200

\* C5: the response that carries the task id is written when the record is
\* already stored (a status query for the id finds it, still pending) and the
\* pipeline has not started; the pipeline starts only after that response.
C5_StoreRespondExecute ==
  [][/\ (res' # res /\ IsAccepted(res')) =>
          \E t \in Created :
            /\ proc[t].taskId = res'.task_id
            /\ proc[t].pc = "respond" /\ proc'[t].pc = "execute"
            /\ res'.task_id \in DOMAIN transcriptionTasks'
            /\ transcriptionTasks'[res'.task_id] = t
            /\ tasks'[t].status = "pending"
     /\ \A t \in Created :
          (proc[t].pc = "execute" /\ proc'[t].pc # "execute") =>
             /\ IsAccepted(res) /\ res.task_id = proc[t].taskId
             /\ tasks[t].status = "pending" /\ tasks'[t].status = "downloading"]_vars

\* C5 witness: the response is written, the record is stored and pending, the
\* pipeline is about to start
C5_Witness ==
  \E t \in Created :
    /\ IsAccepted(res) /\ res.task_id = proc[t].taskId
    /\ proc[t].pc = "execute" /\ cur = t
    /\ tasks[t].status = "pending"
    /\ StatusResponse(res.task_id).status = 200

\* C6 (the claim as stated): no write to a task's record lowers its progress.
C6_ProgressNeverFalls ==
  [][\A t \in Created : tasks'[t].progress >= tasks[t].progress]_vars

\* C6 (amended): under any interleaving of the tasks, a write lowers a task's
\* progress only when it marks the task failed, and that write sets it to 0.
C6_ProgressFallsOnlyOnFailure ==
  [][\A t \in Created :
       /\ tasks'[t].status # "failed" => tasks'[t].progress >= tasks[t].progress
       /\ tasks'[t].status = "failed" => tasks'[t].progress = 0]_vars

\* C6 witness: two tasks, one failed after its progress had been raised, the
\* other transcribing
C6_Witness ==
  /\ Len(tasks) = 2
  /\ \E a, b \in Created :
       /\ tasks[a].status = "failed" /\ Truthy(proc[a].tempDir) /\ tasks[a].progress = 0
       /\ tasks[b].status = "transcribing" /\ tasks[b].progress >= 30

\* C7: while a task is active, a write that leaves it active never lowers its
\* progress.
C7_ActiveProgressMonotone ==
  [][\A t \in Created :
       (tasks[t].status \in NonTerminal /\ tasks'[t].status \in NonTerminal) =>
          tasks[t].progress <= tasks'[t].progress]_vars

\* C7 witness: a task between two batches, its progress inside the window
C7_Witness ==
  \E t \in Created :
    /\ tasks[t].status = "transcribing"
    /\ tasks[t].progress > 30 /\ tasks[t].progress < 90
    /\ proc[t].pc = "whisper"

\* C8: every record's progress is an integer in 0..100, and it is 100 exactly
\* when the status is completed.
C8_ProgressRange ==
  \A t \in Created :
    /\ tasks[t].progress \in 0..100
    /\ tasks[t].progress = 100 <=> tasks[t].status = "completed"

\* C8 witness: a completed record, and the last batch has brought it to 90 before
C8_Witness ==
  \E t \in Created :
    /\ tasks[t].status = "completed" /\ tasks[t].progress = 100
    /\ Len(proc[t].transcripts) = 3

ResultFields == {"transcript", "word_count", "stats"}

\* C9: a status response is not-found exactly when the id is not in the
\* registry; otherwise it reports the record's status, carries the result fields
\* exactly when that status is completed and the error exactly when it is failed.
C9_StatusProjection ==
  res.kind = "status" =>
    /\ res.status = 404 <=> res.task_id \notin DOMAIN transcriptionTasks
    /\ res.status # 404 =>
         /\ res.status = 200
         /\ res.body.status = tasks[transcriptionTasks[res.task_id]].status
         /\ \A f \in ResultFields :
              f \in DOMAIN res.body <=> res.body.status = "completed"
         /\ "error" \in DOMAIN res.body <=> res.body.status = "failed"
         /\ res.body.status = "completed" =>
              res.body.transcript = tasks[transcriptionTasks[res.task_id]].transcript
         /\ res.body.status = "failed" =>
              res.body.error = tasks[transcriptionTasks[res.task_id]].error

\* C9 witness: a query answered for a failed task
C9_Witness ==
  /\ res.kind = "status" /\ res.status = 200
  /\ res.body.status = "failed" /\ "error" \in DOMAIN res.body

\* C10 (the claim as stated): once a record is older than the retention window
\* and the sweep has removed it, its id stays absent from the registry.
C10_SweptStaysAbsent ==
  [][\A t \in Created :
       (/\ now - tasks[t].created_at > ONE_HOUR
        /\ proc[t].taskId \notin DOMAIN transcriptionTasks)
         => proc[t].taskId \notin DOMAIN transcriptionTasks']_vars

Planned == call.fn = "plan" /\ call.done

\* C11 (the claim as stated): for 0 < d < 6000 the planned chunk duration lies
\* in [120, 900] and the chunk count is 9, 10 or 11.
C11_TenChunksPlusMinusOne ==
  (Planned /\ call.totalDuration > 0 /\ call.totalDuration < 6000) =>
     /\ call.chunkDuration \in 120..900
     /\ call.chunkCount \in {9, 10, 11}

\* C11 (amended): for 0 < d < 6000 the planned chunk duration lies in [120, 900]
\* and the chunk count is between 1 and 10; it is 9 or 10 exactly when d > 960,
\* and below that the 120-second minimum gives ceil(d / 120) chunks.
C11_AtMostTenChunks ==
  (Planned /\ call.totalDuration > 0 /\ call.totalDuration < 6000) =>
     /\ call.chunkDuration \in 120..900
     /\ call.chunkCount \in 1..10
     /\ call.chunkCount \in {9, 10} <=> call.totalDuration > 960
     /\ call.totalDuration <= 1200 =>
          /\ call.chunkDuration = 120
          /\ call.chunkCount = (call.totalDuration + 119) \div 120

\* C11 witness: 300 s is planned as three chunks of 120 s
C11_Witness ==
  /\ Planned /\ call.totalDuration = 300
  /\ call.chunkDuration = 120 /\ call.chunkCount = 3

\* the reference: 600 from 6000 s on, else ceil(d / 10) kept within [120, 900]
Reference(d) ==
  IF d >= 6000 THEN 600
  ELSE LET c == (d + 9) \div 10
       IN  IF c < 120 THEN 120 ELSE IF c > 900 THEN 900 ELSE c

\* the durations of the chunks the splitter cuts for a plan
PlannedDurations ==
  [k \in 0..(call.chunkCount - 1) |->
     Chunk([i |-> k, chunkDuration |-> call.chunkDuration,
            totalDuration |-> call.totalDuration], 0).duration]

\* C12 (the claim as stated): the planner equals the reference, and 1850 s gives
\* 185 s and ten chunks of which only the last is shorter.
C12_ReferenceLastShorter ==
  Planned =>
    /\ call.chunkDuration = Reference(call.totalDuration)
    /\ call.totalDuration = 1850 =>
         /\ call.chunkDuration = 185 /\ call.chunkCount = 10
         /\ \A k \in 0..8 : PlannedDurations[k] = 185
         /\ PlannedDurations[9] < 185

\* C12 (amended): the planner equals the reference, and 1850 s gives 185 s and
\* ten chunks of 185 s each, the last as long as the others.
C12_ReferenceEqualChunks ==
  Planned =>
    /\ call.chunkDuration = Reference(call.totalDuration)
    /\ call.totalDuration = 1850 =>
         /\ call.chunkDuration = 185 /\ call.chunkCount = 10
         /\ \A k \in 0..9 : PlannedDurations[k] = 185

\* C12 witness: the plan for 1850 s, and a plan for long audio
C12_Witness ==
  /\ Planned /\ call.totalDuration = 1850
  /\ call.chunkDuration = 185 /\ call.chunkCount = 10

\* the step of task t's run that computes the chunk strategy
PlansSplit(t) == proc[t].pc = "probe" /\ tasks'[t].status = "splitting"

\* C13 (the claim as stated): a submission that supplies a chunk duration c is
\* stored with min(c, 900), and the splitter uses exactly the stored value
\* whatever the probed duration; the planner's value is used only when none
\* was supplied.
C13_SuppliedOverrides ==
  [][/\ \A req \in Requests :
          (Len(tasks') > Len(tasks) /\ req.chunk_duration # Undefined
             /\ PostAccept(req, 1)) =>
             tasks'[Len(tasks')].chunk_duration =
               (IF req.chunk_duration < 900 THEN req.chunk_duration ELSE 900)
     /\ \A t \in Created :
          PlansSplit(t) =>
             proc'[t].chunkDuration =
               (IF tasks[t].chunk_duration # Null THEN tasks[t].chunk_duration
                ELSE calculateOptimalChunkDuration(proc'[t].totalDuration))]_vars

\* C13 (amended): the same for every supplied chunk duration other than 0; a
\* chunk duration of 0 is stored as none, like an absent one, and the planner's
\* value is used for it.
C13_NonZeroOverrides ==
  [][/\ \A req \in Requests :
          (Len(tasks') > Len(tasks) /\ PostAccept(req, 1)) =>
             tasks'[Len(tasks')].chunk_duration =
               (IF req.chunk_duration \in {Undefined, 0} THEN Null
                ELSE IF req.chunk_duration < 900 THEN req.chunk_duration ELSE 900)
     /\ \A t \in Created :
          PlansSplit(t) =>
             proc'[t].chunkDuration =
               (IF tasks[t].chunk_duration # Null THEN tasks[t].chunk_duration
                ELSE calculateOptimalChunkDuration(proc'[t].totalDuration))]_vars

\* C13 witness: 1000 was supplied, and the audio of 300 s is split at 900 s
\* where the planner would have said 120 s
C13_Witness ==
  \E t \in Created :
    /\ tasks[t].status = "splitting" /\ tasks[t].chunk_duration = 900
    /\ proc[t].totalDuration = 300 /\ proc[t].chunkDuration = 900
    /\ calculateOptimalChunkDuration(proc[t].totalDuration) = 120

Assembled == call.fn = "assemble" /\ call.done

\* the outcomes in the order f
Shuffled(outcomes, f) == [k \in 1..Len(outcomes) |-> outcomes[f[k]]]

\* C14: the transcript, the character count and the success count assembled from
\* a list of outcomes with distinct indexes are those assembled from every
\* permutation of the list.
C14_OrderIndependent ==
  Assembled =>
    \A f \in Permutations(1..Len(call.transcripts)) :
      LET shuffled == Shuffled(call.transcripts, f)
      IN  /\ FullTranscript(shuffled) = call.transcript
          /\ Len(FullTranscript(shuffled)) = call.word_count
          /\ SuccessCount(shuffled) = call.successful_chunks

\* C14 witness: three outcomes that arrived out of index order, two of them spoken
C14_Witness ==
  /\ Assembled /\ Len(call.transcripts) = 3
  /\ call.transcripts[1].index > call.transcripts[2].index
  /\ Len(Letters(call.transcript)) >= 2

\* a text without its leading and trailing white space
Stripped(text) ==
  LET keep == {k \in 1..Len(text) : text[k] \notin Whitespace}
  IN  IF keep = {} THEN <<>>
      ELSE SubSeq(text, CHOOSE k \in keep : \A j \in keep : k <= j,
                        CHOOSE k \in keep : \A j \in keep : k >= j)

RECURSIVE KeptUpTo(_, _)
\* the stripped texts of the outcomes with index < n and a non-empty text, by index
KeptUpTo(outcomes, n) ==
  IF n <= 0 THEN <<>>
  ELSE KeptUpTo(outcomes, n - 1) \o
         [j \in 1..Cardinality({k \in 1..Len(outcomes) :
                                  outcomes[k].index = n - 1 /\ outcomes[k].text # <<>>}) |->
            Stripped(outcomes[CHOOSE k \in 1..Len(outcomes) :
                                outcomes[k].index = n - 1].text)]

RECURSIVE Glued(_)
\* the parts with a double line break between one and the next
Glued(parts) ==
  IF Len(parts) = 0 THEN <<>>
  ELSE IF Len(parts) = 1 THEN parts[1]
  ELSE Glued(SubSeq(parts, 1, Len(parts) - 1)) \o <<NL, NL>> \o parts[Len(parts)]

\* C15: the transcript is the outcomes by ascending index, those with an empty
\* text left out, each remaining text trimmed, joined by a double line break;
\* word_count is the length of that string; successful_chunks counts the
\* outcomes with success = true, those with an empty text included.
C15_AssembledResult ==
  Assembled =>
    /\ call.transcript = Glued(KeptUpTo(call.transcripts, MaxOutcomes))
    /\ call.word_count = Len(call.transcript)
    /\ call.successful_chunks =
         Len(SelectSeq(call.transcripts, LAMBDA x : x.success))

\* C15 witness: a spoken chunk, a successful chunk without text and a failed
\* one: two successes, one text
C15_Witness ==
  /\ Assembled /\ Len(call.transcripts) = 3
  /\ call.successful_chunks = 2
  /\ \E k \in 1..3 : call.transcripts[k].success /\ call.transcripts[k].text = <<>>
  /\ \E k \in 1..3 : ~call.transcripts[k].success
  /\ call.word_count = 1

\* the step of task t's run that reads the probe's output
ReadsDuration(t) ==
  proc[t].totalDuration = Undefined /\ proc'[t].totalDuration # Undefined

\* C16 (the claim as stated): a task enters splitting only with a probed total
\* duration of at least 300 seconds; for every probe result below 300, or not
\* a duration, the task goes from downloading to failed with the
\* duration-too-short error and its run goes on to the cleanup, no chunk cut
\* and no transcription call made.
C16_SplitsOnlyFromMinimum ==
  [][\A t \in Created :
       /\ (tasks[t].status # "splitting" /\ tasks'[t].status = "splitting") =>
            /\ proc'[t].totalDuration \notin {NaN, Undefined}
            /\ proc'[t].totalDuration >= 300
       /\ (/\ ReadsDuration(t)
           /\ \/ proc'[t].totalDuration = NaN
              \/ proc'[t].totalDuration < 300) =>
            /\ tasks[t].status = "downloading" /\ tasks'[t].status = "failed"
            /\ tasks'[t].error = "duration too short"
            /\ proc'[t].pc = "cleanup" /\ proc'[t].chunks = <<>>]_vars

\* C17: when the split has left no chunk, the task goes from splitting to
\* transcribing and from there to completed, with an empty transcript,
\* word_count 0 and successful_chunks 0; no transcription call is made and the
\* task does not fail.
C17_NoChunksStillCompletes ==
  [][\A t \in Created :
       (/\ proc[t].pc \in {"transcribe", "batch", "whisper", "batchEnd", "assemble"}
        /\ proc[t].chunks = <<>>
        /\ proc'[t] # proc[t]) =>
          /\ proc[t].pc \in {"transcribe", "assemble"}
          /\ proc[t].pc = "transcribe" =>
               /\ tasks[t].status = "splitting" /\ tasks'[t].status = "transcribing"
               /\ proc'[t].pc = "assemble" /\ proc'[t].transcripts = <<>>
          /\ proc[t].pc = "assemble" =>
               /\ tasks[t].status = "transcribing" /\ tasks'[t].status = "completed"
               /\ tasks'[t].transcript = <<>> /\ tasks'[t].word_count = 0
               /\ tasks'[t].stats.successful_chunks = 0
               /\ tasks'[t].stats.chunk_count = 0]_vars

\* C17 witness: two chunks were planned, none survived, and the task completed
\* with an empty result
C17_Witness ==
  \E t \in Created :
    /\ proc[t].chunkCount = 2 /\ proc[t].i = 0 /\ proc[t].chunks = <<>>
    /\ tasks[t].status = "completed" /\ tasks[t].transcript = <<>>
    /\ tasks[t].stats.successful_chunks = 0

\* the step of task t's run in which an error is raised and caught
Raises(t) == proc'[t].error # proc[t].error

\* where a stage's step leads when nothing is raised
Following ==
  [fetch |-> {"fetch", "mkdtemp"}, mkdtemp |-> {"writeFile"},
   writeFile |-> {"probe"}, probe |-> {"cut", "transcribe"}]

\* C18: a download, directory, file write or probe step that does not go on to
\* the next stage has raised an error; the error is caught in the run: the
\* status becomes failed, the record's error is the raised error's message and
\* the run goes to its cleanup or its end; a failed task's run writes the
\* record no more, makes no further attempt and only ends.
C18_ErrorsBecomeFailed ==
  [][\A t \in Created :
       /\ (/\ proc[t].pc \in DOMAIN Following
           /\ proc'[t] # proc[t]
           /\ proc'[t].pc \notin Following[proc[t].pc]) => Raises(t)
       /\ Raises(t) =>
            /\ proc'[t].error # ""
            /\ tasks[t].status \in NonTerminal /\ tasks'[t].status = "failed"
            /\ tasks'[t].error = proc'[t].error
            /\ proc'[t].pc = (IF Truthy(proc[t].tempDir) THEN "cleanup" ELSE "done")
       /\ tasks[t].status = "failed" =>
            /\ tasks'[t] = tasks[t]
            /\ proc'[t].attempt = proc[t].attempt
            /\ proc'[t] # proc[t] => proc[t].pc = "cleanup" /\ proc'[t].pc = "done"]_vars

\* C18 witness: the third download attempt failed, the task is failed with that
\* error and the run has ended
C18_Witness ==
  \E t \in Created :
    /\ proc[t].attempt = 3 /\ proc[t].error = "ECONNRESET" /\ proc[t].pc = "done"
    /\ tasks[t].status = "failed" /\ tasks[t].error = "ECONNRESET"

\* task t's run has created its directory and has not ended
UsesDir(t) == Truthy(proc[t].tempDir) /\ proc[t].pc # "done"

\* C19: the runs that have a temporary directory and have not ended have
\* pairwise distinct directories, each still existing; a run with a directory
\* calls fs.rm in the step that makes its task completed or failed, and it ends
\* only when that call has settled, which removes no directory but its own.
C19_OwnDirectoryRemoved ==
  [][/\ \A a, b \in 1..Len(proc') :
          (a # b /\ UsesDir(a)' /\ UsesDir(b)') => proc'[a].tempDir # proc'[b].tempDir
     /\ \A t \in 1..Len(proc') : UsesDir(t)' => proc'[t].tempDir \in dirs'
     /\ \A t \in Created :
          /\ (/\ tasks[t].status \in NonTerminal /\ tasks'[t].status \in Terminal
              /\ Truthy(proc[t].tempDir)) => proc'[t].pc = "cleanup"
          /\ (UsesDir(t) /\ proc'[t].pc = "done") =>
               /\ proc[t].pc = "cleanup" /\ tasks[t].status \in Terminal
               /\ dirs' \in {dirs, dirs \ {proc[t].tempDir}}
          /\ (Truthy(proc[t].tempDir) /\ proc'[t].tempDir # proc[t].tempDir) => FALSE]_vars

\* C19 witness: two runs with a directory each; one has ended, failed, and its
\* directory is removed, the other is transcribing in its own
C19_Witness ==
  \E a, b \in Created :
    /\ Truthy(proc[a].tempDir) /\ proc[a].pc = "done" /\ tasks[a].status = "failed"
    /\ proc[a].tempDir \notin dirs
    /\ UsesDir(b) /\ proc[b].pc = "whisper" /\ proc[b].tempDir \in dirs
    /\ proc[b].tempDir # proc[a].tempDir

\* C20: a step of task a's run leaves the record of every other task as it was,
\* and of the registry it changes at most the entry under a's own id, which
\* then refers to a's record.
C20_OnlyOwnRecord ==
  [][\A a \in Created :
       proc'[a] # proc[a] =>
         /\ \A b \in Created \ {a} : tasks'[b] = tasks[b]
         /\ DOMAIN transcriptionTasks' = DOMAIN transcriptionTasks \cup
              (IF tasks'[a] # tasks[a] THEN {proc[a].taskId} ELSE {})
         /\ \A id \in DOMAIN transcriptionTasks :
              id # proc[a].taskId => transcriptionTasks'[id] = transcriptionTasks[id]
         /\ proc[a].taskId \in DOMAIN transcriptionTasks' =>
              transcriptionTasks'[proc[a].taskId] = a]_vars

\* C20 witness: two tasks with different ids; one has run to completed while
\* the other's record still shows the start of its download
C20_Witness ==
  \E a, b \in Created :
    /\ proc[a].taskId # proc[b].taskId
    /\ tasks[a].status = "completed" /\ tasks[a].progress = 100
    /\ tasks[b].status = "downloading" /\ tasks[b].progress = 5
    /\ proc[b].pc = "fetch"

\* C21 (the claim as stated): the id given to an accepted submission is not in
\* the registry at that moment, and no two runs have the same id.
C21_FreshId ==
  [][Len(tasks') > Len(tasks) =>
       /\ proc'[Len(tasks')].taskId \notin DOMAIN transcriptionTasks
       /\ \A a, b \in 1..Len(proc') :
            a # b => proc'[a].taskId # proc'[b].taskId]_vars

\* C22 (the claim as stated): every attempt but the last ended with a timeout or
\* a network error, there are never more than maxRetries attempts, and an
\* attempt that ended with another error, such as a response that is not ok, is
\* the last one: the call has thrown.
C22_RetriesOnlyTransient ==
  Downloading =>
    /\ call.attempt <= call.maxRetries
    /\ Len(call.errors) \in {call.attempt - 1, call.attempt}
    /\ \A k \in 1..Len(call.errors) :
         /\ k < call.attempt => call.errors[k].kind \in {"timeout", "network"}
         /\ call.errors[k].kind = "http" =>
              k = call.attempt /\ call.phase = "thrown"

RECURSIVE Concatenated(_)
\* the bytes of the pieces, one piece after the other
Concatenated(pieces) ==
  IF pieces = <<>> THEN <<>> ELSE Head(pieces) \o Concatenated(Tail(pieces))

\* C23: the call has returned only from an attempt that did not fail, every
\* attempt before it having failed, and what it returned is the bytes of the
\* pieces the body of that attempt has yielded, in their order, the whole body
\* read; no bytes are returned otherwise; when it has thrown, every attempt has
\* failed and the error thrown is the one the last attempt ended with.
C23_ReturnsFinalAttemptBytes ==
  Downloading =>
    /\ call.phase = "returned" =>
         /\ Len(call.errors) = call.attempt - 1
         /\ call.stream = <<>>
         /\ call.result = Concatenated(call.served)
         /\ call.error = Null
    /\ call.phase # "returned" => call.result = <<>>
    /\ call.phase = "thrown" =>
         /\ Len(call.errors) = call.attempt
         /\ call.error = call.errors[call.attempt]
    /\ call.phase # "thrown" => call.error = Null

\* C23 witness: two attempts failed, the third has returned the three bytes of
\* its body
C23_Witness ==
  /\ Downloading /\ call.phase = "returned" /\ call.attempt = 3
  /\ Len(call.errors) = 2 /\ call.result = <<2, 3, 1>>

\* C24 (the claim as stated): while an attempt is in progress, waiting for the
\* response or reading the body, its timer is armed.
C24_TimerCoversAttempt ==
  (Downloading /\ call.phase \in {"fetch", "read"}) => call.timer

\* the batch size for a requested max_parallel: 10 when none, else at most 10
BatchSize(req) ==
  IF req.max_parallel = Undefined THEN 10
  ELSE IF req.max_parallel < 10 THEN req.max_parallel ELSE 10

\* the step of task t's run that forms a batch
FormsBatch(t) == proc[t].pc = "batch" /\ proc'[t].pc # "batch"

\* the indexes of a list of chunks or of outcomes, in the list's order
Indexes(list) == [k \in 1..Len(list) |-> list[k].index]

\* C25 (the claim as stated): the batch size p stored for a submission is
\* min(requested max_parallel, 10), 10 when none was requested; every batch
\* formed is the next p surviving chunks behind those already transcribed, not
\* empty, and smaller than p only when it reaches the end of the list; when the
\* stage ends there is one outcome per surviving chunk, in the chunks' order.
C25_BatchesPartition ==
  [][/\ \A req \in Requests :
          (Len(tasks') > Len(tasks) /\ PostAccept(req, 1)) =>
             tasks'[Len(tasks')].max_parallel = BatchSize(req)
     /\ \A t \in Created :
          /\ FormsBatch(t) =>
               LET p == tasks[t].max_parallel
                   n == Len(proc[t].chunks)
                   called == Len(proc[t].transcripts)
                   last == IF called + p < n THEN called + p ELSE n
               IN  /\ proc'[t].batch # <<>>
                   /\ proc'[t].batch = SubSeq(proc[t].chunks, called + 1, last)
                   /\ Len(proc'[t].batch) = p \/ last = n
          /\ (proc[t].pc # "assemble" /\ proc'[t].pc = "assemble") =>
               Indexes(proc'[t].transcripts) = Indexes(proc[t].chunks)]_vars

\* the transcription calls of task t that have started and not settled
InFlight(t) ==
  IF proc[t].pc = "whisper"
  THEN Len(proc[t].batch) - Cardinality(DOMAIN proc[t].settled) ELSE 0

\* C26 (the claim as stated): a batch is formed only when every call of the
\* batch before it has settled, and the calls of a task in flight are never
\* more than its max_parallel nor more than 10.
C26_BatchAfterBatch ==
  [][\A t \in Created :
       /\ FormsBatch(t) => DOMAIN proc[t].settled = 1..Len(proc[t].batch)
       /\ InFlight(t)' > 0 =>
            /\ InFlight(t)' <= tasks'[t].max_parallel
            /\ InFlight(t)' <= 10]_vars

\* the calls of task t's batch that settle in a step
Settling(t) == DOMAIN proc'[t].settled \ DOMAIN proc[t].settled

\* C27: while the calls of a batch are awaited, each step of the run settles
\* one call and leaves the outcomes of the others, the batch, the chunk list
\* and the record as they were; the outcome carries the index of its chunk and,
\* when the call failed, an empty text; the stage ends with one outcome per
\* surviving chunk, in the chunks' order.
C27_FailureIsOneOutcome ==
  [][\A t \in Created :
       /\ (proc[t].pc = "whisper" /\ proc'[t] # proc[t]) =>
            /\ Cardinality(Settling(t)) = 1
            /\ \A j \in DOMAIN proc[t].settled : proc'[t].settled[j] = proc[t].settled[j]
            /\ \A j \in Settling(t) :
                 /\ proc'[t].settled[j].index = proc[t].batch[j].index
                 /\ ~proc'[t].settled[j].success => proc'[t].settled[j].text = <<>>
            /\ proc'[t].batch = proc[t].batch /\ proc'[t].chunks = proc[t].chunks
            /\ proc'[t].transcripts = proc[t].transcripts
            /\ proc'[t].pc \in {"whisper", "batchEnd"}
            /\ tasks'[t] = tasks[t]
       /\ (proc[t].pc = "batchEnd" /\ proc'[t] # proc[t]) =>
            /\ Len(proc'[t].transcripts) = Len(proc[t].transcripts) + Len(proc[t].batch)
            /\ \A j \in 1..Len(proc[t].batch) :
                 proc'[t].transcripts[Len(proc[t].transcripts) + j] = proc[t].settled[j]
       /\ (proc[t].pc # "assemble" /\ proc'[t].pc = "assemble") =>
            Indexes(proc'[t].transcripts) = Indexes(proc[t].chunks)]_vars

\* C27 witness: three chunks in batches of two; the call for the first chunk
\* failed, the second chunk of that batch and the chunk of the next batch have
\* their texts
C27_Witness ==
  \E t \in Created :
    /\ tasks[t].max_parallel = 2 /\ Len(proc[t].transcripts) = 3
    /\ ~proc[t].transcripts[1].success
    /\ proc[t].transcripts[2].success /\ proc[t].transcripts[2].text # <<>>
    /\ proc[t].transcripts[3].success /\ proc[t].transcripts[3].text # <<>>

\* the positions a step of the run can lead to from each position
StageOrder ==
  [respond |-> {"execute"}, execute |-> {"fetch"},
   fetch |-> {"fetch", "mkdtemp", "done"}, mkdtemp |-> {"writeFile", "done"},
   writeFile |-> {"probe", "cleanup"}, probe |-> {"cut", "transcribe", "cleanup"},
   cut |-> {"cut", "transcribe"}, transcribe |-> {"batch", "assemble"},
   batch |-> {"whisper", "batchEnd"}, whisper |-> {"whisper", "batchEnd"},
   batchEnd |-> {"batch", "assemble"}, assemble |-> {"cleanup"},
   cleanup |-> {"done"}, done |-> {}]

\* C28: a run is at one position at a time and moves along download, file
\* write, probe, cuts, transcription: the probe is called only when the
\* download has been written, the first cut only when the probe has returned a
\* duration, the cuts one after the other by ascending index, each after the
\* one before has ended, and the transcription stage is entered only when the
\* cut of the last planned index has ended (or none was planned).
C28_StagesInSequence ==
  [][\A t \in Created :
       proc'[t] # proc[t] =>
         /\ proc'[t].pc \in StageOrder[proc[t].pc]
         /\ proc'[t].pc = "probe" => Truthy(proc[t].tempDir)
         /\ proc'[t].pc = "cut" =>
              /\ proc'[t].totalDuration # Undefined
              /\ proc'[t].i < proc'[t].chunkCount
              /\ proc'[t].i = (IF proc[t].pc = "cut" THEN proc[t].i + 1 ELSE 0)
         /\ proc[t].pc = "cut" =>
              /\ proc'[t].i = proc[t].i + 1
              /\ proc'[t].chunks \in
                   {proc[t].chunks} \cup
                   {Append(proc[t].chunks, c) : c \in {Chunk(proc[t], size) : size \in ChunkSizes}}
              /\ proc'[t].pc = "transcribe" <=> proc'[t].i >= proc[t].chunkCount
         /\ (proc[t].pc = "probe" /\ proc'[t].pc = "transcribe") =>
              ~Lt(0, proc'[t].chunkCount)
         /\ proc'[t].pc = "whisper" =>
              proc[t].pc \in {"batch", "whisper"} /\ tasks[t].status = "transcribing"]_vars

\* C28 witness: three cuts have ended, index by index, and the first
\* transcription calls are in flight
C28_Witness ==
  \E t \in Created :
    /\ proc[t].pc = "whisper" /\ proc[t].chunkCount = 3
    /\ Indexes(proc[t].chunks) = <<0, 1, 2>>
    /\ proc[t].transcripts = <<>>

\* the split loop has run through for task t
SplitEnded(t) == proc[t].pc = "transcribe" /\ tasks[t].status = "splitting"

\* no planned chunk of task t was dropped: every index the loop visited is in the list
NoneDropped(t) == Indexes(proc[t].chunks) = [k \in 1..proc[t].i |-> k - 1]

\* the [start, start + duration) intervals of the list tile [0, T)
Tiles(chunks, T) ==
  /\ Len(chunks) > 0
  /\ chunks[1].start_time = 0
  /\ \A k \in 1..(Len(chunks) - 1) :
       chunks[k].start_time + chunks[k].duration = chunks[k + 1].start_time
  /\ chunks[Len(chunks)].start_time + chunks[Len(chunks)].duration = T

\* C29: for a probed duration T and the chunk duration c in effect the splitter
\* plans ceil(T / c) chunks, chunk i starts at i*c and is recorded with duration
\* min(c, T - i*c), every recorded duration is positive, only the last planned
\* chunk may be shorter than c, and when no chunk was dropped the chunks'
\* intervals cover [0, T) with no gap and no overlap.
C29_ChunksTileDuration ==
  \A t \in Created :
    (SplitEnded(t) /\ proc[t].totalDuration # NaN) =>
      LET p == proc[t]
          T == p.totalDuration
          c == ChunkDurationFor(tasks[t], T)
      IN  /\ p.chunkDuration = c
          /\ p.chunkCount = CeilDiv(T, c)
          /\ \A k \in 1..Len(p.chunks) :
               LET ch == p.chunks[k]
               IN  /\ ch.start_time = ch.index * c
                   /\ ch.duration = MathMin(c, T - ch.index * c)
                   /\ ch.duration > 0
                   /\ ch.duration < c => ch.index = p.chunkCount - 1
          /\ NoneDropped(t) => Tiles(p.chunks, T)

\* the indexes of a chunk list go strictly up
Ascending(chunks) ==
  \A j, k \in 1..Len(chunks) : j < k => chunks[j].index < chunks[k].index

\* C30: each iteration of the split loop attempts the next planned index, once:
\* a cut that fails or whose file exceeds MAX_WHISPER_SIZE leaves the chunk list
\* as it was, any other cut appends the chunk of that index, the list stays in
\* strictly ascending index order without an oversize chunk, and the task stays
\* in splitting, on its way to the next index or to the transcription.
C30_DroppedChunksSkipped ==
  [][\A t \in Created :
       (proc[t].pc = "cut" /\ proc'[t] # proc[t]) =>
         LET p == proc[t]
             q == proc'[t]
         IN  /\ p.i \in 0..(p.chunkCount - 1)
             /\ \A k \in 1..Len(p.chunks) : p.chunks[k].index < p.i
             /\ q.i = p.i + 1
             /\ CutThrow(t) => q.chunks = p.chunks
             /\ \A size \in ChunkSizes :
                  CutOk(t, size) =>
                    IF size > MAX_WHISPER_SIZE THEN q.chunks = p.chunks
                    ELSE /\ Len(q.chunks) = Len(p.chunks) + 1
                         /\ Slice(q.chunks, 0, Len(p.chunks)) = p.chunks
                         /\ q.chunks[Len(q.chunks)].index = p.i
                         /\ q.chunks[Len(q.chunks)].size = size
             /\ Ascending(q.chunks)
             /\ \A k \in 1..Len(q.chunks) : q.chunks[k].size <= MAX_WHISPER_SIZE
             /\ q.pc \in {"cut", "transcribe"}
             /\ q.error = ""
             /\ tasks'[t].status = "splitting"]_vars

\* C30 witness: of three planned chunks the middle one was dropped, and the task
\* completed with the other two
C30_Witness ==
  \E t \in Created :
    /\ proc[t].chunkCount = 3
    /\ Indexes(proc[t].chunks) = <<0, 2>>
    /\ tasks[t].status = "completed"

\* the fields written at creation that no update names
SourceFields == {"audio_url", "language", "chunk_duration", "max_parallel", "created_at"}

\* the fields of record t that a step gave a new value, or added
Changed(t) ==
  {f \in DOMAIN tasks'[t] : f \notin DOMAIN tasks[t] \/ tasks'[t][f] # tasks[t][f]}

\* the fields named by the update a step applied to record t: the completed
\* update names the result, the failed update the error, the progress updates
\* behind writeFile, a cut and a batch name progress and message only
Named(t) ==
  IF tasks'[t].status = "completed" /\ tasks[t].status # "completed"
  THEN {"status", "progress", "message", "transcript", "word_count", "stats"}
  ELSE IF tasks'[t].status = "failed" /\ tasks[t].status # "failed"
  THEN {"status", "progress", "message", "error"}
  ELSE IF proc[t].pc \in {"writeFile", "cut", "batchEnd"}
  THEN {"progress", "message"}
  ELSE {"status", "progress", "message"}

\* C31: an update of a task record changes only the fields it names and
\* updated_at, no field is removed, and audio_url, language, chunk_duration,
\* max_parallel and created_at stay as they were written at creation.
C31_UpdatesKeepSource ==
  [][\A t \in 1..Len(tasks) :
       /\ DOMAIN tasks[t] \subseteq DOMAIN tasks'[t]
       /\ Changed(t) \subseteq Named(t) \cup {"updated_at"}
       /\ \A f \in SourceFields : tasks'[t][f] = tasks[t][f]
       /\ tasks'[t] # tasks[t] => tasks'[t].updated_at = now]_vars

\* C31 witness: a record created at 0 with chunk_duration 200 and max_parallel 2
\* was updated to completed after the clock had moved on
C31_Witness ==
  \E t \in Created :
    /\ tasks[t].status = "completed" /\ tasks[t].updated_at > tasks[t].created_at
    /\ tasks[t].created_at = 0 /\ tasks[t].audio_url = "u"
    /\ tasks[t].chunk_duration = 200 /\ tasks[t].max_parallel = 2

\* the status, progress and message that one update, or the creation, writes together
WrittenTogether(status, progress, message) ==
  \/ status = "pending" /\ progress = 0 /\ message[1] = "created"
  \/ status = "downloading" /\ progress = 5 /\ message[1] = "downloading"
  \/ status = "downloading" /\ progress = 15 /\ message[1] = "downloaded"
  \/ status = "splitting" /\ progress = 20 /\ message[1] = "splitting"
  \/ /\ status = "splitting" /\ message[1] = "cutting"
     /\ progress = SplitProgress(message[2] - 1, message[3])
  \/ status = "transcribing" /\ progress = 30 /\ message[1] = "transcribing"
  \/ /\ status = "transcribing" /\ message[1] = "transcribed"
     /\ progress = TranscribeProgress(message[2], message[3])
  \/ status = "completed" /\ progress = 100 /\ message[1] = "completed"
  \/ status = "failed" /\ progress = 0 /\ message[1] = "failed"

\* C32: the body of a status response for an existing record is the record as
\* its latest update left it: status, progress and message are values one update
\* wrote together, updated_at is that record's, the result is there exactly when
\* the status is completed and the error exactly when it is failed.
C32_QuerySeesWholeUpdate ==
  (res.kind = "status" /\ res.status = 200) =>
     LET task == tasks[transcriptionTasks[res.task_id]]
         body == res.body
     IN  /\ res.task_id \in DOMAIN transcriptionTasks
         /\ body.status = task.status /\ body.progress = task.progress
         /\ body.message = task.message /\ body.updated_at = task.updated_at
         /\ WrittenTogether(body.status, body.progress, body.message)
         /\ body.updated_at >= body.created_at /\ body.updated_at <= now
         /\ body.status = "completed" <=> "transcript" \in DOMAIN body
         /\ body.status = "completed" =>
              /\ body.transcript = task.transcript
              /\ body.word_count = Len(task.transcript)
              /\ body.stats = task.stats
         /\ body.status = "failed" <=> "error" \in DOMAIN body
         /\ body.status = "failed" => body.error = task.error

\* C32 witness: a query between two cuts of a running pipeline returns the
\* progress of the update behind the first cut
C32_Witness ==
  /\ res.kind = "status" /\ res.status = 200
  /\ res.body.status = "splitting" /\ res.body.message[1] = "cutting"
  /\ \E t \in Created : proc[t].pc = "cut" /\ proc[t].i = 1
                        /\ proc[t].taskId = res.task_id

\* C33: while a task is transcribing its progress changes only in the step that
\* ends a batch, with every call of the batch settled; that step adds the batch
\* to completedChunks, which stays within the number of chunks, and sets the
\* progress to 30 + floor(60 * completedChunks / totalChunks), a value in
\* [30, 90] that is 90 when the batch loop ends.
C33_ProgressPerBatch ==
  [][\A t \in Created :
       LET p == proc[t]
           q == proc'[t]
           total == Len(p.chunks)
       IN  /\ (/\ tasks[t].status = "transcribing"
               /\ tasks'[t].status = "transcribing"
               /\ tasks'[t].progress # tasks[t].progress) => p.pc = "batchEnd"
           /\ (p.pc = "batchEnd" /\ q # p) =>
                /\ DOMAIN p.settled = 1..Len(p.batch)
                /\ q.completedChunks = p.completedChunks + Len(p.batch)
                /\ q.completedChunks <= total
                /\ tasks'[t].status = "transcribing"
                /\ tasks'[t].progress = 30 + ((60 * q.completedChunks) \div total)
                /\ tasks'[t].progress \in 30..90
                /\ q.pc = "assemble" => tasks'[t].progress = 90]_vars

\* C33 witness: three chunks were transcribed in batches of two, and the second
\* batch has brought the progress to 90
C33_Witness ==
  \E t \in Created :
    /\ proc[t].pc = "assemble" /\ tasks[t].status = "transcribing"
    /\ tasks[t].max_parallel = 2 /\ proc[t].completedChunks = 3
    /\ tasks[t].progress = 90

\* C34: the sweep leaves the record of a running pipeline in the registry: while
\* a task's status is pending, downloading, splitting or transcribing its id is
\* registered, and no status query for it is answered with not-found.
C34_RunningNeverSwept ==
  \A t \in Created :
    tasks[t].status \in NonTerminal =>
      /\ proc[t].taskId \in DOMAIN transcriptionTasks
      /\ ~(res.kind = "status" /\ res.task_id = proc[t].taskId /\ res.status = 404)

\* C35: once a task has reached splitting, the chunk duration in effect is a
\* positive number of at most 900 seconds and the planned chunk count is
\* ceil(totalDuration / chunkDuration), an integer of at least 1.
C35_PositiveChunkDuration ==
  \A t \in Created :
    tasks[t].status = "splitting" =>
      /\ Lt(0, proc[t].chunkDuration)
      /\ proc[t].chunkDuration <= MAX_CHUNK_DURATION
      /\ proc[t].chunkCount = CeilDiv(proc[t].totalDuration, proc[t].chunkDuration)
      /\ Lt(0, proc[t].chunkCount)

\* C36: the max_parallel stored in a task record is an integer from 1 to 10,
\* whatever the submission carried, and the step that ends a batch moves the
\* loop index forward by at least one chunk.
C36_ParallelBoundInRange ==
  [][\A t \in 1..Len(tasks') :
       /\ tasks'[t].max_parallel \in 1..MAX_PARALLEL
       /\ (t \in Created /\ proc[t].pc = "batchEnd" /\ proc'[t] # proc[t]) =>
            proc'[t].i >= proc[t].i + 1]_vars

\* a <= b as JavaScript compares numbers: false when either is NaN
Le(a, b) == a # NaN /\ b # NaN /\ a <= b

\* the segments joined into a transcript: what is left between the separators
Segments(transcript) ==
  Cardinality({k \in 1..Len(transcript) : transcript[k] # NL})

\* C37: in a completed record successful_chunks <= chunk_count <=
\* ceil(duration_seconds / chunk_duration_seconds), and the transcript joins at
\* most successful_chunks segments.
C37_StatsOrdered ==
  \A t \in Created :
    tasks[t].status = "completed" =>
      LET stats == tasks[t].stats
      IN  /\ stats.successful_chunks <= stats.chunk_count
          /\ Le(stats.chunk_count,
                CeilDiv(stats.duration_seconds, stats.chunk_duration_seconds))
          /\ Segments(tasks[t].transcript) <= stats.successful_chunks

\* C38: a record is pending only inside the synchronous segment that created
\* it, which goes on to the response and the downloading update before another
\* handler runs; a status query for an existing record therefore never reports
\* pending, and the first status it can report is downloading with progress 5.
C38_PendingNeverObserved ==
  /\ \A t \in Created :
       tasks[t].status = "pending" =>
         cur = t /\ proc[t].pc \in {"respond", "execute"}
  /\ (res.kind = "status" /\ res.status = 200) =>
       /\ res.body.status # "pending"
       /\ res.body.updated_at = res.body.created_at /\ res.body.status \in NonTerminal =>
            res.body.progress >= 5

\* C38 witness: the earliest answer a query can get, downloading with progress 5,
\* while the download is awaited
C38_Witness ==
  /\ res.kind = "status" /\ res.status = 200
  /\ res.body.status = "downloading" /\ res.body.progress = 5
  /\ \E t \in Created : proc[t].taskId = res.task_id /\ proc[t].pc = "fetch"
                        /\ proc[t].attempt = 1

(************************** POST /chunk-audio ******************************)
\* the handler on its own: call holds the request and the handler's locals,
\* dirs the temporary directories that exist
MaxCuts == 3

Infinity == 2^30

\* req.body.chunk_duration of POST /chunk-audio
ChunkAudioDurations == {Undefined, 0 - 5, 0, 120, 200}

\* the destructuring default: chunk_duration = 120
ChunkDurationOrDefault(chunk_duration) ==
  IF chunk_duration = Undefined THEN 120 ELSE chunk_duration

\* Math.ceil(a / b) for a >= 0: a positive number over zero is Infinity, 0 / 0 is NaN
CeilQuotient(a, b) ==
  IF a = NaN \/ b = NaN THEN NaN
  ELSE IF b = 0 THEN (IF a = 0 THEN NaN ELSE Infinity)
  ELSE CeilDiv(a, b)

ChunkAudioInit ==
  /\ Boot
  /\ call \in [fn : {"chunkAudio"}, audio_url : AudioUrls,
               chunk_duration : {ChunkDurationOrDefault(c) : c \in ChunkAudioDurations},
               phase : {"start"}, tempDir : {Null}, totalDuration : {Undefined},
               chunkCount : {Undefined}, i : {0}, chunks : {<<>>}, responses : {<<>>}]

ChunkAudioFrame == UNCHANGED <<cfConfigured, now, transcriptionTasks, tasks, proc, cur, res>>

\* res.json / res.status(...).json: one more response on the connection
Respond(status, changes) ==
  call' = ObjectAssign(ObjectAssign(call, changes),
                       [responses |-> Append(call.responses, status)])

\* if (!audio_url) return res.status(400)
ChunkAudioReject ==
  /\ call.phase = "start" /\ call.audio_url = ""
  /\ Respond(400, [phase |-> "done"])
  /\ UNCHANGED dirs /\ ChunkAudioFrame

\* await fs.mkdtemp(...), ahead of the try block
ChunkAudioMkdtemp(dir) ==
  /\ call.phase = "start" /\ call.audio_url # ""
  /\ dir \notin dirs
  /\ dirs' = dirs \cup {dir}
  /\ call' = ObjectAssign(call, [phase |-> "download", tempDir |-> dir])
  /\ ChunkAudioFrame

\* fs.mkdtemp rejects outside the try block: the handler's promise rejects, and
\* the framework answers 500 (handled) or leaves the request unanswered
ChunkAudioMkdtempThrow(handled) ==
  /\ call.phase = "start" /\ call.audio_url # ""
  /\ IF handled THEN Respond(500, [phase |-> "done"])
     ELSE call' = ObjectAssign(call, [phase |-> "done"])
  /\ UNCHANGED dirs /\ ChunkAudioFrame

\* the catch block: res.status(500).json(...), then the finally block
ChunkAudioCatch == Respond(500, [phase |-> "cleanup"])

ChunkAudioDownloadOk ==
  /\ call.phase = "download"
  /\ call' = ObjectAssign(call, [phase |-> "writeFile"])
  /\ UNCHANGED dirs /\ ChunkAudioFrame

ChunkAudioDownloadThrow ==
  /\ call.phase = "download"
  /\ ChunkAudioCatch
  /\ UNCHANGED dirs /\ ChunkAudioFrame

ChunkAudioWriteFileOk ==
  /\ call.phase = "writeFile"
  /\ call' = ObjectAssign(call, [phase |-> "probe"])
  /\ UNCHANGED dirs /\ ChunkAudioFrame

ChunkAudioWriteFileThrow ==
  /\ call.phase = "writeFile"
  /\ ChunkAudioCatch
  /\ UNCHANGED dirs /\ ChunkAudioFrame

ChunkAudioProbeThrow ==
  /\ call.phase = "probe"
  /\ ChunkAudioCatch
  /\ UNCHANGED dirs /\ ChunkAudioFrame

\* the loop test i < chunkCount, and behind the loop res.json({ success: true, ... })
ChunkAudioLoop(i, chunkCount, changes) ==
  IF Lt(i, chunkCount)
  THEN call' = ObjectAssign(ObjectAssign(call, changes), [phase |-> "ffmpeg"])
  ELSE Respond(200, ObjectAssign(changes, [phase |-> "cleanup"]))

\* parseFloat of ffprobe's output and Math.ceil(totalDuration / chunk_duration)
ChunkAudioProbeOk(totalDuration) ==
  /\ call.phase = "probe"
  /\ LET chunkCount == CeilQuotient(totalDuration, call.chunk_duration)
     IN  ChunkAudioLoop(0, chunkCount,
                        [totalDuration |-> totalDuration, chunkCount |-> chunkCount, i |-> 0])
  /\ UNCHANGED dirs /\ ChunkAudioFrame

\* i++ of the loop; past MaxCuts iterations the index is kept at the bound
ChunkAudioNextIndex(i) == IF i < MaxCuts THEN i + 1 ELSE MaxCuts

\* await execAsync(ffmpegCmd) returns
ChunkAudioFfmpegOk ==
  /\ call.phase = "ffmpeg"
  /\ call' = ObjectAssign(call, [phase |-> "readFile"])
  /\ UNCHANGED dirs /\ ChunkAudioFrame

\* ffmpeg fails: the inner catch logs, and the loop goes on
ChunkAudioFfmpegThrow ==
  /\ call.phase = "ffmpeg"
  /\ ChunkAudioLoop(ChunkAudioNextIndex(call.i), call.chunkCount,
                    [i |-> ChunkAudioNextIndex(call.i)])
  /\ UNCHANGED dirs /\ ChunkAudioFrame

\* the record pushed for the chunk: index i + 1, start i * chunk_duration
ChunkAudioChunk(c) ==
  [index |-> c.i + 1, start_time |-> c.i * c.chunk_duration,
   duration |-> MathMin(c.chunk_duration, c.totalDuration - c.i * c.chunk_duration)]

\* await fs.readFile(outputPath) returns and the chunk is pushed
ChunkAudioReadFileOk ==
  /\ call.phase = "readFile"
  /\ ChunkAudioLoop(ChunkAudioNextIndex(call.i), call.chunkCount,
                    [i |-> ChunkAudioNextIndex(call.i),
                     chunks |-> IF call.i < MaxCuts
                                THEN Append(call.chunks, ChunkAudioChunk(call))
                                ELSE call.chunks])
  /\ UNCHANGED dirs /\ ChunkAudioFrame

\* finally: fs.rm(tempDir) removes the directory, or fails and is logged
ChunkAudioCleanup(removed) ==
  /\ call.phase = "cleanup"
  /\ dirs' = IF removed THEN dirs \ {call.tempDir} ELSE dirs
  /\ call' = ObjectAssign(call, [phase |-> "done",
                                 tempDir |-> IF removed THEN Null ELSE call.tempDir])
  /\ ChunkAudioFrame

ChunkAudioNext ==
  \/ ChunkAudioReject
  \/ \E dir \in DirNames : ChunkAudioMkdtemp(dir)
  \/ \E handled \in BOOLEAN : ChunkAudioMkdtempThrow(handled)
  \/ ChunkAudioDownloadOk
  \/ ChunkAudioDownloadThrow
  \/ ChunkAudioWriteFileOk
  \/ ChunkAudioWriteFileThrow
  \/ ChunkAudioProbeThrow
  \/ \E d \in ProbeOutputs : ChunkAudioProbeOk(d)
  \/ ChunkAudioFfmpegOk
  \/ ChunkAudioFfmpegThrow
  \/ ChunkAudioReadFileOk
  \/ \E removed \in BOOLEAN : ChunkAudioCleanup(removed)

\* every call the handler awaits returns or fails
ChunkAudioSpec ==
  ChunkAudioInit /\ [][ChunkAudioNext]_vars /\ WF_vars(ChunkAudioNext)

\* C39: a POST /chunk-audio request with an audio_url, once its temporary
\* directory exists, is answered exactly once and then runs its cleanup, which
\* removes the directory unless fs.rm fails, whatever chunk_duration it carried.
C39_OneResponseThenCleanup ==
  /\ [](call.fn = "chunkAudio" => Len(call.responses) <= 1)
  /\ [](call.fn = "chunkAudio" /\ call.phase = "done" /\ call.tempDir = Null => dirs = {})
  /\ (call.fn = "chunkAudio" /\ call.phase = "download")
       ~> (call.phase = "done" /\ Len(call.responses) = 1)

====
